---- MODULE Spec2Model ----
(***************************************************************************)
(* Traversal-and-aggregation core of ferret:                               *)
(*   analyzer/mod.rs    StatsAnalyzer (tree-mode accumulator)              *)
(*   analyzer/stream.rs StreamAnalyzer (token scan and its accumulator)    *)
(*   walker.rs          DomWalker (explicit-queue preorder iterator)       *)
(*   wasm/mod.rs        FerretSession (chunked driver), analyze_html       *)
(***************************************************************************)
EXTENDS Integers, Sequences, FiniteSets, TLC

\* ------------------------------------------------------------------ bounds
MaxLimit == 2      \* top_values_limit is drawn from 0..MaxLimit
MaxEvents == 4     \* visits / reader events fed to one accumulator run
MaxDepthArg == 1   \* depth argument of a direct visit(node, depth) call
MaxNodes == 3      \* nodes in a parsed document arena
MaxChunk == 2      \* chunk_size argument of FerretSession::step
MaxSrcEvents == 2  \* reader events held by a file or URL source
MaxPulls == 5      \* next() calls made on one DomWalker
MaxPairNodes == 2  \* nodes of the first document of two concurrent sessions
MaxOtherNodes == 1 \* nodes of the second document of two concurrent sessions
MaxPairEvents == 2 \* reader events of each of two concurrent scans
MaxPathPieces == 3 \* pieces a request path is put together from
MaxTokens == 3     \* tokens of the input of one scan followed read by read

\* ------------------------------------------------- input alphabets (small)
TagNames == {"div", "p"}
AttrKeys == {"class", "id"}
AttrValues == {"a", "b", "c"}

\* Option<T>: None is <<>>, Some(v) is <<v>>
None == <<>>
Some(v) == <<v>>

\* ---------------------------------------------------------------- HashMap
EmptyMap == [k \in {} |-> 0]
contains_key(m, k) == k \in DOMAIN m
len(m) == Cardinality(DOMAIN m)
insert(m, k, v) == [x \in (DOMAIN m) \cup {k} |-> IF x = k THEN v ELSE m[x]]

\* --------------------------------------------------------------- data model
NewTagStats(tag_name) ==
    [name |-> tag_name, count |-> 0, attributes |-> EmptyMap]

\* the entry is created as AttributeStats::default(), with an empty name
NewAttributeStats_bad_noname(attr_name) ==
    [name |-> "", count |-> 0, value_counts |-> EmptyMap]

NewAttributeStats(attr_name) ==
    [name |-> attr_name, count |-> 0, value_counts |-> EmptyMap]

AnalysisResultDefault ==
    [tags |-> EmptyMap, files_analyzed |-> 0, max_depth |-> 0]

StatsAnalyzer_new_bad_nofiles(top_values_limit) ==
    [result |-> [tags |-> EmptyMap, files_analyzed |-> 0, max_depth |-> 0],
     top_values_limit |-> top_values_limit]

StatsAnalyzer_new(top_values_limit) ==
    [result |-> [tags |-> EmptyMap, files_analyzed |-> 1, max_depth |-> 0],
     top_values_limit |-> top_values_limit]

StreamAnalyzer_new(top_values_limit) ==
    [top_values_limit |-> top_values_limit]

\* map.entry(k).or_insert_with(|| fresh)
entry_or_insert(m, k, fresh) == IF contains_key(m, k) THEN m[k] ELSE fresh

\* ------------------------------------------- StatsAnalyzer::visit (tree mode)
\* the admission test and increment of one attribute value, mod.rs 92-96
track_value_bad_always(attr_stats, limit, val_str) ==
    [attr_stats EXCEPT !.value_counts =
        insert(@, val_str, entry_or_insert(@, val_str, 0) + 1)]

track_value_bad_evict(attr_stats, limit, val_str) ==
    IF len(attr_stats.value_counts) < limit
       \/ contains_key(attr_stats.value_counts, val_str)
    THEN [attr_stats EXCEPT !.value_counts =
            insert(@, val_str, entry_or_insert(@, val_str, 0) + 1)]
    ELSE [attr_stats EXCEPT !.value_counts =
            insert(EmptyMap, val_str, 1)]

track_value_bad_norepeat(attr_stats, limit, val_str) ==
    IF len(attr_stats.value_counts) < limit
    THEN [attr_stats EXCEPT !.value_counts =
            insert(@, val_str, entry_or_insert(@, val_str, 0) + 1)]
    ELSE attr_stats

track_value_bad_offbyone(attr_stats, limit, val_str) ==
    IF len(attr_stats.value_counts) <= limit
       \/ contains_key(attr_stats.value_counts, val_str)
    THEN [attr_stats EXCEPT !.value_counts =
            insert(@, val_str, entry_or_insert(@, val_str, 0) + 1)]
    ELSE attr_stats

track_value_bad_fold(attr_stats, limit, val_str) ==
    IF len(attr_stats.value_counts) < limit
       \/ contains_key(attr_stats.value_counts, val_str)
    THEN [attr_stats EXCEPT !.value_counts =
            insert(@, val_str, entry_or_insert(@, val_str, 0) + 1)]
    ELSE IF attr_stats.value_counts = EmptyMap THEN attr_stats
    ELSE LET k == CHOOSE x \in DOMAIN attr_stats.value_counts : TRUE
         IN [attr_stats EXCEPT !.value_counts[k] = @ + 1]

track_value(attr_stats, limit, val_str) ==
    IF len(attr_stats.value_counts) < limit
       \/ contains_key(attr_stats.value_counts, val_str)
    THEN [attr_stats EXCEPT !.value_counts =
            insert(@, val_str, entry_or_insert(@, val_str, 0) + 1)]
    ELSE attr_stats

\* opt.unwrap_or(default)
unwrap_or(opt, default) == IF opt = None THEN default ELSE opt[1]

\* val_opt.map(..).unwrap_or_default()
unwrap_or_default(val_opt) == IF val_opt = None THEN "" ELSE val_opt[1]

\* one iteration of the attribute loop, mod.rs 72-97
visit_attribute_bad_nocount(tag_stats, limit, key, val_opt) ==
    LET val_str == unwrap_or_default(val_opt)
        attr_stats == entry_or_insert(tag_stats.attributes, key,
                                      NewAttributeStats(key))
    IN [tag_stats EXCEPT !.attributes =
          insert(@, key, track_value(attr_stats, limit, val_str))]

\* capacity tested on the values of all attributes of the tag together
visit_attribute_bad_shared(tag_stats, limit, key, val_opt) ==
    LET val_str == unwrap_or_default(val_opt)
        attr_stats == entry_or_insert(tag_stats.attributes, key,
                                      NewAttributeStats(key))
        counted == [attr_stats EXCEPT !.count = @ + 1]
        full == \E k \in DOMAIN tag_stats.attributes :
                    len(tag_stats.attributes[k].value_counts) >= limit
    IN [tag_stats EXCEPT !.attributes =
          insert(@, key, IF full /\ ~contains_key(counted.value_counts, val_str)
                         THEN counted
                         ELSE track_value(counted, limit, val_str))]

visit_attribute(tag_stats, limit, key, val_opt) ==
    LET val_str == unwrap_or_default(val_opt)
        attr_stats == entry_or_insert(tag_stats.attributes, key,
                                      NewAttributeStats(key))
        counted == [attr_stats EXCEPT !.count = @ + 1]
    IN [tag_stats EXCEPT !.attributes =
          insert(@, key, track_value(counted, limit, val_str))]

RECURSIVE visit_attributes(_, _, _)
visit_attributes(tag_stats, limit, attrs) ==
    IF attrs = <<>> THEN tag_stats
    ELSE visit_attributes(
            visit_attribute(tag_stats, limit, attrs[1][1], attrs[1][2]),
            limit, Tail(attrs))

\* the tag part of visit, mod.rs 57-98
visit_tag_bad_percount(res, limit, node) ==
    LET tag_name == node.name
        tag_stats == entry_or_insert(res.tags, tag_name,
                                     NewTagStats(tag_name))
        counted == [tag_stats EXCEPT !.count = @ + 1 + Len(node.attrs)]
    IN [res EXCEPT !.tags =
          insert(@, tag_name, visit_attributes(counted, limit, node.attrs))]

\* the entry is overwritten by a fresh one on every visit
visit_tag_bad_reset(res, limit, node) ==
    LET tag_name == node.name
        counted == [NewTagStats(tag_name) EXCEPT !.count = 1]
    IN [res EXCEPT !.tags =
          insert(@, tag_name, visit_attributes(counted, limit, node.attrs))]

visit_tag(res, limit, node) ==
    LET tag_name == node.name
        tag_stats == entry_or_insert(res.tags, tag_name,
                                     NewTagStats(tag_name))
        counted == [tag_stats EXCEPT !.count = @ + 1]
    IN [res EXCEPT !.tags =
          insert(@, tag_name, visit_attributes(counted, limit, node.attrs))]

\* fn visit(&mut self, node, depth) -> bool, mod.rs 52-101 (always returns true)
\* a node that is not a tag is counted under its (empty) name
visit_bad_countall(self, node, depth) ==
    LET r1 == IF depth > self.result.max_depth
              THEN [self.result EXCEPT !.max_depth = depth]
              ELSE self.result
    IN [self EXCEPT !.result = visit_tag(r1, self.top_values_limit, node)]

visit_bad_lastdepth(self, node, depth) ==
    LET r1 == [self.result EXCEPT !.max_depth = depth]
        r2 == IF node.kind = "tag"
              THEN visit_tag(r1, self.top_values_limit, node)
              ELSE r1
    IN [self EXCEPT !.result = r2]

visit(self, node, depth) ==
    LET r1 == IF depth > self.result.max_depth
              THEN [self.result EXCEPT !.max_depth = depth]
              ELSE self.result
        r2 == IF node.kind = "tag"
              THEN visit_tag(r1, self.top_values_limit, node)
              ELSE r1
    IN [self EXCEPT !.result = r2]

\* fn result(&self) -> AnalysisResult, mod.rs 103-105
result(self) == self.result

\* --------------------------- StreamAnalyzer::process_element (stream mode)
\* an attribute of a token is Ok(key, value) or Err (malformed: skipped)
AttrOk(key, value) == [ok |-> TRUE, key |-> key, value |-> value]
AttrErr == [ok |-> FALSE]

\* the admission test and increment of one attribute value, stream.rs 209-216
\* a new value is admitted while the histogram holds at most limit values
stream_track_value_bad_offbyone(attr_stats, limit, attr_val) ==
    IF len(attr_stats.value_counts) <= limit
       \/ contains_key(attr_stats.value_counts, attr_val)
    THEN [attr_stats EXCEPT !.value_counts =
            insert(@, attr_val, entry_or_insert(@, attr_val, 0) + 1)]
    ELSE attr_stats

stream_track_value(attr_stats, limit, attr_val) ==
    IF len(attr_stats.value_counts) < limit
       \/ contains_key(attr_stats.value_counts, attr_val)
    THEN [attr_stats EXCEPT !.value_counts =
            insert(@, attr_val, entry_or_insert(@, attr_val, 0) + 1)]
    ELSE attr_stats

\* one iteration of the attribute loop, stream.rs 194-218
process_attribute(tag_stats, limit, attr) ==
    IF attr.ok
    THEN LET attr_stats == entry_or_insert(tag_stats.attributes, attr.key,
                                           NewAttributeStats(attr.key))
             counted == [attr_stats EXCEPT !.count = @ + 1]
         IN [tag_stats EXCEPT !.attributes =
               insert(@, attr.key,
                      stream_track_value(counted, limit, attr.value))]
    ELSE tag_stats

RECURSIVE process_attributes(_, _, _)
process_attributes(tag_stats, limit, attrs) ==
    IF attrs = <<>> THEN tag_stats
    ELSE process_attributes(process_attribute(tag_stats, limit, attrs[1]),
                            limit, Tail(attrs))

\* fn process_element(&self, e, result), stream.rs 176-219
\* the tag is counted when its entry is created and not again
process_element_bad_countonce(self, e, res) ==
    LET tag_name == e.name
        tag_stats == entry_or_insert(res.tags, tag_name, NewTagStats(tag_name))
        counted == [tag_stats EXCEPT !.count = 1]
    IN [res EXCEPT !.tags =
          insert(@, tag_name,
                 process_attributes(counted, self.top_values_limit, e.attrs))]

process_element(self, e, res) ==
    LET tag_name == e.name
        tag_stats == entry_or_insert(res.tags, tag_name, NewTagStats(tag_name))
        counted == [tag_stats EXCEPT !.count = @ + 1]
    IN [res EXCEPT !.tags =
          insert(@, tag_name,
                 process_attributes(counted, self.top_values_limit, e.attrs))]

\* ------------------------------------ StreamAnalyzer::analyze_reader, loop body
\* locals of analyze_reader before the loop, stream.rs 135-140
analyze_reader_init_bad_nofiles ==
    [result |-> AnalysisResultDefault, depth |-> 0, pc |-> "loop"]

analyze_reader_init ==
    [result |-> [AnalysisResultDefault EXCEPT !.files_analyzed = 1],
     depth |-> 0, pc |-> "loop"]

\* Ok(Event::Start(e)), stream.rs 144-151
\* the counter is incremented and max_depth is left alone
on_start_bad_nomax(self, st, e) ==
    [st EXCEPT !.depth = st.depth + 1,
               !.result = process_element(self, e, st.result)]

on_start_bad_premax(self, st, e) ==
    LET r1 == IF st.depth > st.result.max_depth
              THEN [st.result EXCEPT !.max_depth = st.depth]
              ELSE st.result
    IN [st EXCEPT !.depth = st.depth + 1,
                  !.result = process_element(self, e, r1)]

on_start(self, st, e) ==
    LET d == st.depth + 1
        r1 == IF d > st.result.max_depth
              THEN [st.result EXCEPT !.max_depth = d]
              ELSE st.result
    IN [st EXCEPT !.depth = d, !.result = process_element(self, e, r1)]

\* Ok(Event::Empty(e)), stream.rs 152-155
on_empty_bad_skip(self, st, e) == st

on_empty_bad_nest(self, st, e) ==
    [st EXCEPT !.depth = @ + 1,
               !.result = process_element(self, e, st.result)]

on_empty(self, st, e) ==
    [st EXCEPT !.result = process_element(self, e, st.result)]

\* Ok(Event::End(_)), stream.rs 156-160
on_end_bad_unguarded(st) == [st EXCEPT !.depth = @ - 1]

on_end(st) == IF st.depth > 0 THEN [st EXCEPT !.depth = @ - 1] ELSE st

\* Ok(Event::Eof) => break; Ok(result), stream.rs 161, 170
on_eof(st) == [st EXCEPT !.pc = "returned"]

\* Err(_) and every other event (text, comment, ...), stream.rs 162-166
on_skip_bad_abort(st) == [st EXCEPT !.pc = "failed"]

on_skip(st) == st

\* one reader event: [type, e]
Ev(type, e) == [type |-> type, e |-> e]

scan_event(self, st, ev) ==
    CASE ev.type = "Start" -> on_start(self, st, ev.e)
      [] ev.type = "Empty" -> on_empty(self, st, ev.e)
      [] ev.type = "End" -> on_end(st)
      [] ev.type = "Eof" -> on_eof(st)
      [] OTHER -> on_skip(st)

\* ------------------------------------------------------ tl document arena
\* a parsed document: nodes (the arena, indexed by handle) and roots
\* (vdom.children()); a node is a tag (name, attributes, child handles),
\* raw text or a comment
Reverse_bad_identity(s) == s

Reverse(s) == [i \in 1..Len(s) |-> s[Len(s) + 1 - i]]

\* handle.get(parser): None for a handle outside the arena
get(handle, doc) ==
    IF handle \in 1..Len(doc.nodes) THEN Some(doc.nodes[handle]) ELSE None

\* node.children(): Some(children) for a tag, None for raw text / comment
children(node) == IF node.kind = "tag" THEN Some(node.children) ELSE None

\* --------------------------------------------------------------- DomWalker
\* DomWalker::new(roots, parser), walker.rs 10-18
DomWalker_new(roots) ==
    [queue |-> [i \in 1..Len(roots) |-> <<roots[i], 0>>]]

\* for child in children_vec.into_iter().rev() { queue.push_front(..) }
\* the children are pushed to the back of the queue
RECURSIVE push_front_all_bad_back(_, _, _)
push_front_all_bad_back(queue, rev_children, depth) ==
    IF rev_children = <<>> THEN queue
    ELSE push_front_all_bad_back(Append(queue, <<rev_children[1], depth>>),
                                 Tail(rev_children), depth)

RECURSIVE push_front_all(_, _, _)
push_front_all(queue, rev_children, depth) ==
    IF rev_children = <<>> THEN queue
    ELSE push_front_all(<<<<rev_children[1], depth>>>> \o queue,
                        Tail(rev_children), depth)

\* Iterator::next, walker.rs 24-39: [item: Option<(handle, depth)>, walker]
\* the children replace the queue instead of going in front of it
DomWalker_next_bad_dropsiblings(self, doc) ==
    IF self.queue = <<>> THEN [item |-> None, walker |-> self]
    ELSE LET handle == self.queue[1][1]
             depth == self.queue[1][2]
             popped == Tail(self.queue)
             node == get(handle, doc)
         IN IF node = None
            THEN [item |-> None, walker |-> [self EXCEPT !.queue = popped]]
            ELSE LET ch == children(node[1])
                     q2 == IF ch = None \/ ch[1] = <<>> THEN popped
                           ELSE push_front_all(<<>>, Reverse(ch[1]),
                                               depth + 1)
                 IN [item |-> Some(<<handle, depth>>),
                     walker |-> [self EXCEPT !.queue = q2]]

DomWalker_next(self, doc) ==
    IF self.queue = <<>> THEN [item |-> None, walker |-> self]
    ELSE LET handle == self.queue[1][1]
             depth == self.queue[1][2]
             popped == Tail(self.queue)
             node == get(handle, doc)
         IN IF node = None
            THEN [item |-> None, walker |-> [self EXCEPT !.queue = popped]]
            ELSE LET ch == children(node[1])
                     q2 == IF ch = None THEN popped
                           ELSE push_front_all(popped, Reverse(ch[1]),
                                               depth + 1)
                 IN [item |-> Some(<<handle, depth>>),
                     walker |-> [self EXCEPT !.queue = q2]]

\* ----------------------------------------------------------- FerretSession
SessionLimit == 5

\* FerretSession::new(html), wasm/mod.rs 28-54 (parse already done: doc)
FerretSession_new(doc) ==
    [walker |-> Some(DomWalker_new(doc.roots)),
     analyzer |-> StatsAnalyzer_new(SessionLimit),
     is_complete |-> FALSE]

\* the while loop of step, wasm/mod.rs 64-74:
\* [session, ret, items] where items are the (handle, depth) pulled
\* the exhausted walker is reported but not recorded
RECURSIVE step_loop_bad_nocomplete(_, _, _, _, _)
step_loop_bad_nocomplete(self, doc, processed, chunk_size, items) ==
    IF processed < chunk_size
    THEN LET nx == DomWalker_next(self.walker[1], doc)
         IN IF nx.item # None
            THEN step_loop_bad_nocomplete(
                   [self EXCEPT
                      !.walker = Some(nx.walker),
                      !.analyzer = visit(self.analyzer,
                                         doc.nodes[nx.item[1][1]],
                                         nx.item[1][2])],
                   doc, processed + 1, chunk_size, Append(items, nx.item[1]))
            ELSE [session |-> [self EXCEPT !.walker = Some(nx.walker)],
                  ret |-> FALSE, items |-> items]
    ELSE [session |-> self, ret |-> TRUE, items |-> items]

\* the node that uses up the chunk is pulled but not handed to the analyzer
RECURSIVE step_loop_bad_dropvisit(_, _, _, _, _)
step_loop_bad_dropvisit(self, doc, processed, chunk_size, items) ==
    IF processed < chunk_size
    THEN LET nx == DomWalker_next(self.walker[1], doc)
         IN IF nx.item # None
            THEN step_loop_bad_dropvisit(
                   [self EXCEPT
                      !.walker = Some(nx.walker),
                      !.analyzer = IF processed + 1 = chunk_size THEN @
                                   ELSE visit(@, doc.nodes[nx.item[1][1]],
                                              nx.item[1][2])],
                   doc, processed + 1, chunk_size, Append(items, nx.item[1]))
            ELSE [session |-> [self EXCEPT !.walker = Some(nx.walker),
                                           !.is_complete = TRUE],
                  ret |-> FALSE, items |-> items]
    ELSE [session |-> self, ret |-> TRUE, items |-> items]

RECURSIVE step_loop(_, _, _, _, _)
step_loop(self, doc, processed, chunk_size, items) ==
    IF processed < chunk_size
    THEN LET nx == DomWalker_next(self.walker[1], doc)
         IN IF nx.item # None
            THEN step_loop(
                   [self EXCEPT
                      !.walker = Some(nx.walker),
                      !.analyzer = visit(self.analyzer,
                                         doc.nodes[nx.item[1][1]],
                                         nx.item[1][2])],
                   doc, processed + 1, chunk_size, Append(items, nx.item[1]))
            ELSE [session |-> [self EXCEPT !.walker = Some(nx.walker),
                                           !.is_complete = TRUE],
                  ret |-> FALSE, items |-> items]
    ELSE [session |-> self, ret |-> TRUE, items |-> items]

\* pub fn step(&mut self, chunk_size) -> bool, wasm/mod.rs 56-75
step_bad_nocheck(self, doc, chunk_size) ==
    IF self.walker = None
    THEN [session |-> self, ret |-> FALSE, items |-> <<>>]
    ELSE step_loop(self, doc, 0, chunk_size, <<>>)

step_bad_restart(self, doc, chunk_size) ==
    IF self.is_complete \/ self.walker = None
    THEN [session |-> self, ret |-> FALSE, items |-> <<>>]
    ELSE step_loop([self EXCEPT !.walker = Some(DomWalker_new(doc.roots))],
                   doc, 0, chunk_size, <<>>)

step(self, doc, chunk_size) ==
    IF self.is_complete \/ self.walker = None
    THEN [session |-> self, ret |-> FALSE, items |-> <<>>]
    ELSE step_loop(self, doc, 0, chunk_size, <<>>)

\* pub fn get_result(&self), wasm/mod.rs 77-82 (before serialization)
get_result(self) ==
    [result(self.analyzer) EXCEPT
        !.files_analyzed = IF self.is_complete THEN 1 ELSE 0]

\* files_analyzed is written into the analyzer's own result, not into a clone
get_result_call_bad_inplace(self) ==
    [session |-> [self EXCEPT !.analyzer.result.files_analyzed =
                                  IF self.is_complete THEN 1 ELSE 0],
     value   |-> get_result(self)]

\* the call as a whole: &self is left as it was, res is a clone that the
\* caller owns
get_result_call(self) ==
    LET res == result(self.analyzer)
    IN [session |-> self,
        value   |-> [res EXCEPT
                       !.files_analyzed = IF self.is_complete THEN 1 ELSE 0]]

\* the traversal loop of analyze_html, wasm/mod.rs 132-134
RECURSIVE walk_all(_, _, _)
walk_all(walker, analyzer, doc) ==
    LET nx == DomWalker_next(walker, doc)
    IN IF nx.item = None THEN analyzer
       ELSE walk_all(nx.walker,
                     visit(analyzer, doc.nodes[nx.item[1][1]], nx.item[1][2]),
                     doc)

\* pub fn analyze_html(content), wasm/mod.rs 113-146: the data field;
\* parsed is Some(doc) or None on a parse error
\* the structure returned on a parse error counts one file
analyze_html_bad_countfailed(parsed) ==
    IF parsed = None THEN [AnalysisResultDefault EXCEPT !.files_analyzed = 1]
    ELSE LET doc == parsed[1]
             walker == DomWalker_new(doc.roots)
             analyzer == walk_all(walker, StatsAnalyzer_new(SessionLimit), doc)
         IN [result(analyzer) EXCEPT !.files_analyzed = 1]

analyze_html(parsed) ==
    IF parsed = None THEN AnalysisResultDefault
    ELSE LET doc == parsed[1]
             walker == DomWalker_new(doc.roots)
             analyzer == walk_all(walker, StatsAnalyzer_new(SessionLimit), doc)
         IN [result(analyzer) EXCEPT !.files_analyzed = 1]

\* ------------------------------------------ analyze_reader on a token list
\* the loop of analyze_reader over the events the reader yields, stream.rs
\* 142-170; the reader ends every input with Eof
RECURSIVE scan_all(_, _, _)
scan_all(self, st, events) ==
    IF st.pc = "returned" THEN st
    ELSE IF events = <<>> THEN scan_event(self, st, Ev("Eof", None))
    ELSE scan_all(self, scan_event(self, st, events[1]), Tail(events))

\* fn analyze_string(&self, content) -> Result<AnalysisResult>, 121-124
analyze_string(self, events) ==
    scan_all(self, analyze_reader_init, events).result

\* ------------------------------- the reader analyze_reader pulls events from
\* Reader::from_reader(reader), stream.rs 131: the tokens still to be read
\* and whether the reader has reached its exit state
Reader_from_reader(tokens) == [rest |-> tokens, exit |-> FALSE]

\* reader.read_event_into(&mut buf), stream.rs 143: [event, reader].
\* The reader takes the next token of the input; at the end of the input,
\* and after a read that returned an error, it is in its exit state, where
\* every read yields Eof.
\* an error is reported again by every later read
read_event_into_bad_retry(reader) ==
    IF reader.exit \/ reader.rest = <<>>
    THEN [event |-> Ev("Eof", None), reader |-> [reader EXCEPT !.exit = TRUE]]
    ELSE IF reader.rest[1].type = "Err"
    THEN [event |-> reader.rest[1], reader |-> reader]
    ELSE [event |-> reader.rest[1],
          reader |-> [reader EXCEPT !.rest = Tail(@)]]

read_event_into(reader) ==
    IF reader.exit \/ reader.rest = <<>>
    THEN [event |-> Ev("Eof", None), reader |-> [reader EXCEPT !.exit = TRUE]]
    ELSE IF reader.rest[1].type = "Err"
    THEN [event |-> reader.rest[1],
          reader |-> [reader EXCEPT !.rest = Tail(@), !.exit = TRUE]]
    ELSE [event |-> reader.rest[1],
          reader |-> [reader EXCEPT !.rest = Tail(@)]]

\* ------------------------------------------- analyze_file and analyze_url
\* Result<AnalysisResult>
ResultOk(v) == [ok |-> TRUE, value |-> v]
ResultErr(e) == [ok |-> FALSE, error |-> e]

\* fn analyze_reader(&self, reader) -> Result<AnalysisResult>, stream.rs
\* 130-171: the only return is Ok(result)
analyze_reader(self, events) ==
    ResultOk(scan_all(self, analyze_reader_init, events).result)

\* a call's outcome: what it returns and whether analyze_reader was entered
Outcome(ret, scanned) == [ret |-> ret, scanned |-> scanned]

\* pub fn analyze_file(&self, path), stream.rs 64-68;
\* file: [opens, events], File::open(path)? fails when ~opens
analyze_file(self, file) ==
    IF ~file.opens THEN Outcome(ResultErr("io"), FALSE)
    ELSE Outcome(analyze_reader(self, file.events), TRUE)

\* response.status().is_success(): 2xx
is_success(status) == status \in 200..299

\* pub async fn analyze_url(&self, url), stream.rs 83-106;
\* resp: [transport_ok, status, body_ok, events]
analyze_url_bad_nostatus(self, resp) ==
    IF ~resp.transport_ok THEN Outcome(ResultErr("reqwest"), FALSE)
    ELSE IF ~resp.body_ok THEN Outcome(ResultErr("reqwest"), FALSE)
    ELSE Outcome(analyze_reader(self, resp.events), TRUE)

analyze_url(self, resp) ==
    IF ~resp.transport_ok THEN Outcome(ResultErr("reqwest"), FALSE)
    ELSE IF ~is_success(resp.status) THEN Outcome(ResultErr("HTTP error"), FALSE)
    ELSE IF ~resp.body_ok THEN Outcome(ResultErr("reqwest"), FALSE)
    ELSE Outcome(analyze_reader(self, resp.events), TRUE)

\* ------------------------------------- serde: AnalysisResult to JSON and back
\* a JSON value: number, string, or object (its members in written order)
JNum(n) == [t |-> "num", v |-> n]
JStr(s) == [t |-> "str", v |-> s]
JObj(members) == [t |-> "obj", v |-> members]

\* iteration order of a HashMap: unspecified, here one order or its reverse
KeySeq(S, rev) ==
    LET q == CHOOSE f \in [1..Cardinality(S) -> S] :
                 \A i, j \in 1..Cardinality(S) : f[i] = f[j] => i = j
    IN IF rev THEN Reverse(q) ELSE q

\* Serialize for the map fields: one member per entry, in iteration order
ser_value_counts(m, rev) ==
    LET ks == KeySeq(DOMAIN m, rev)
    IN JObj([i \in 1..Len(ks) |-> <<ks[i], JNum(m[ks[i]])>>])

\* #[derive(Serialize)] struct AttributeStats, mod.rs 26-31
ser_AttributeStats(a, rev) ==
    JObj(<< <<"name", JStr(a.name)>>, <<"count", JNum(a.count)>>,
            <<"value_counts", ser_value_counts(a.value_counts, rev)>> >>)

ser_attributes(m, rev) ==
    LET ks == KeySeq(DOMAIN m, rev)
    IN JObj([i \in 1..Len(ks) |-> <<ks[i], ser_AttributeStats(m[ks[i]], rev)>>])

\* #[derive(Serialize)] struct TagStats, mod.rs 19-24
ser_TagStats(ts, rev) ==
    JObj(<< <<"name", JStr(ts.name)>>, <<"count", JNum(ts.count)>>,
            <<"attributes", ser_attributes(ts.attributes, rev)>> >>)

ser_tags(m, rev) ==
    LET ks == KeySeq(DOMAIN m, rev)
    IN JObj([i \in 1..Len(ks) |-> <<ks[i], ser_TagStats(m[ks[i]], rev)>>])

\* #[derive(Serialize)] struct AnalysisResult, mod.rs 12-17
\* max_depth left out of the written object
ser_AnalysisResult_bad_skipdepth(r, rev) ==
    JObj(<< <<"tags", ser_tags(r.tags, rev)>>,
            <<"files_analyzed", JNum(r.files_analyzed)>> >>)

ser_AnalysisResult(r, rev) ==
    JObj(<< <<"tags", ser_tags(r.tags, rev)>>,
            <<"files_analyzed", JNum(r.files_analyzed)>>,
            <<"max_depth", JNum(r.max_depth)>> >>)

\* serde_json::to_string(&result), integration_tests.rs 223
to_string(r, rev) == ser_AnalysisResult(r, rev)

\* Deserialize: every step gives Ok(value) or Err
DeOk(v) == [ok |-> TRUE, value |-> v]
DeErr == [ok |-> FALSE]

\* a struct field: the member of that name; a missing or repeated field
\* reads as JMissing, which no deserializer accepts
JMissing == [t |-> "missing"]

field(j, name) ==
    IF j.t # "obj" THEN JMissing
    ELSE LET hits == {i \in 1..Len(j.v) : j.v[i][1] = name}
         IN IF Cardinality(hits) # 1 THEN JMissing
            ELSE j.v[CHOOSE i \in hits : TRUE][2]

de_usize(j) == IF j.t # "num" THEN DeErr
               ELSE IF j.v < 0 THEN DeErr ELSE DeOk(j.v)
de_String(j) == IF j.t # "str" THEN DeErr ELSE DeOk(j.v)

\* a map: the entries inserted one by one in written order
RECURSIVE insert_all(_, _)
insert_all(m, entries) ==
    IF entries = <<>> THEN m
    ELSE insert_all(insert(m, entries[1][1], entries[1][2].value),
                    Tail(entries))

\* the members of an object in written order
members(j) == IF j.t = "obj" THEN j.v ELSE <<>>

\* entries: each member's key with its value as deserialized
de_map(j, entries) ==
    IF j.t # "obj" THEN DeErr
    ELSE IF \E i \in 1..Len(entries) : ~entries[i][2].ok THEN DeErr
         ELSE DeOk(insert_all(EmptyMap, entries))

de_value_counts(j) ==
    de_map(j, [i \in 1..Len(members(j)) |->
                  <<members(j)[i][1], de_usize(members(j)[i][2])>>])

\* #[derive(Deserialize)] struct AttributeStats, mod.rs 26-31
de_AttributeStats(j) ==
    LET name == de_String(field(j, "name"))
        count == de_usize(field(j, "count"))
        value_counts == de_value_counts(field(j, "value_counts"))
    IN IF ~name.ok \/ ~count.ok \/ ~value_counts.ok THEN DeErr
       ELSE DeOk([name |-> name.value, count |-> count.value,
                  value_counts |-> value_counts.value])

de_attributes(j) ==
    de_map(j, [i \in 1..Len(members(j)) |->
                  <<members(j)[i][1], de_AttributeStats(members(j)[i][2])>>])

\* #[derive(Deserialize)] struct TagStats, mod.rs 19-24
de_TagStats(j) ==
    LET name == de_String(field(j, "name"))
        count == de_usize(field(j, "count"))
        attributes == de_attributes(field(j, "attributes"))
    IN IF ~name.ok \/ ~count.ok \/ ~attributes.ok THEN DeErr
       ELSE DeOk([name |-> name.value, count |-> count.value,
                  attributes |-> attributes.value])

de_tags(j) ==
    de_map(j, [i \in 1..Len(members(j)) |->
                  <<members(j)[i][1], de_TagStats(members(j)[i][2])>>])

\* #[derive(Deserialize)] struct AnalysisResult, mod.rs 12-17
de_AnalysisResult(j) ==
    LET tags == de_tags(field(j, "tags"))
        files_analyzed == de_usize(field(j, "files_analyzed"))
        max_depth == de_usize(field(j, "max_depth"))
    IN IF ~tags.ok \/ ~files_analyzed.ok \/ ~max_depth.ok THEN DeErr
       ELSE DeOk([tags |-> tags.value,
                  files_analyzed |-> files_analyzed.value,
                  max_depth |-> max_depth.value])

\* serde_json::from_str(&json_str), integration_tests.rs 228
from_str(j) == de_AnalysisResult(j)

\* ------------------------------------------------ wasm renderer, the value
\* returned by analyze_html. A String is the sequence of its lines.
\* sort_by(|a, b| b.count.cmp(&a.count)): stable, larger counts first
RECURSIVE sort_by_count_desc(_, _)
sort_by_count_desc(keys, cnt) ==
    IF keys = <<>> THEN <<>>
    ELSE LET rest == sort_by_count_desc(Tail(keys), cnt)
             n == Cardinality({i \in 1..Len(rest) :
                                  cnt[rest[i]] > cnt[keys[1]]})
         IN SubSeq(rest, 1, n) \o <<keys[1]>> \o SubSeq(rest, n + 1, Len(rest))

\* the entries of a map in iteration order, sorted by count
sorted_by_count(m, rev) ==
    sort_by_count_desc(KeySeq(DOMAIN m, rev), [k \in DOMAIN m |-> m[k].count])
sorted_vals(value_counts, rev) ==
    sort_by_count_desc(KeySeq(DOMAIN value_counts, rev), value_counts)

take(q, n) == SubSeq(q, 1, IF Len(q) < n THEN Len(q) ELSE n)
Branch(is_last) == IF is_last THEN "last" ELSE "mid"

\* render_tree_string, renderer.rs 3-69: the lines from index i on
RECURSIVE tree_val_lines(_, _, _, _)
tree_val_lines(vals, value_counts, indent, i) ==
    IF i > Len(vals) THEN <<>>
    ELSE <<<<"val", indent, Branch(i = Len(vals)), vals[i],
             value_counts[vals[i]]>>>>
         \o tree_val_lines(vals, value_counts, indent, i + 1)

RECURSIVE tree_attr_lines(_, _, _, _, _)
tree_attr_lines(attrs, attributes, child_indent, rev, j) ==
    IF j > Len(attrs) THEN <<>>
    ELSE LET attr == attributes[attrs[j]]
             is_last_attr == j = Len(attrs)
         IN <<<<"attr", child_indent, Branch(is_last_attr), attr.name,
                attr.count>>>>
            \o tree_val_lines(take(sorted_vals(attr.value_counts, rev), 5),
                              attr.value_counts,
                              <<child_indent, Branch(is_last_attr)>>, 1)
            \o tree_attr_lines(attrs, attributes, child_indent, rev, j + 1)

RECURSIVE tree_tag_lines(_, _, _, _)
tree_tag_lines(tags, report, rev, i) ==
    IF i > Len(tags) THEN <<>>
    ELSE LET tag == report.tags[tags[i]]
             is_last_tag == i = Len(tags)
         IN <<<<"tag", Branch(is_last_tag), tag.name, tag.count>>>>
            \o tree_attr_lines(sorted_by_count(tag.attributes, rev),
                               tag.attributes, Branch(is_last_tag), rev, 1)
            \o tree_tag_lines(tags, report, rev, i + 1)

render_tree_string(report, rev) ==
    <<<<"Files analyzed", report.files_analyzed>>>>
    \o tree_tag_lines(sorted_by_count(report.tags, rev), report, rev, 1)

\* render_html_tree_string, renderer.rs 71-125
RECURSIVE html_val_lines(_, _, _)
html_val_lines(vals, value_counts, i) ==
    IF i > Len(vals) THEN <<>>
    ELSE <<<<"li val", vals[i], value_counts[vals[i]]>>>>
         \o html_val_lines(vals, value_counts, i + 1)

RECURSIVE html_attr_lines(_, _, _, _)
html_attr_lines(attrs, attributes, rev, j) ==
    IF j > Len(attrs) THEN <<>>
    ELSE LET attr == attributes[attrs[j]]
         IN <<<<"li attr", attr.name, attr.count>>>>
            \o (IF attr.value_counts # EmptyMap
                THEN <<<<"ul">>>>
                     \o html_val_lines(
                           take(sorted_vals(attr.value_counts, rev), 10),
                           attr.value_counts, 1)
                     \o <<<<"/ul">>>>
                ELSE <<>>)
            \o <<<<"/li">>>>
            \o html_attr_lines(attrs, attributes, rev, j + 1)

RECURSIVE html_tag_lines(_, _, _, _)
html_tag_lines(tags, report, rev, i) ==
    IF i > Len(tags) THEN <<>>
    ELSE LET tag == report.tags[tags[i]]
         IN <<<<"li tag", tag.name, tag.count>>>>
            \o (IF tag.attributes # EmptyMap
                THEN <<<<"ul">>>>
                     \o html_attr_lines(sorted_by_count(tag.attributes, rev),
                                        tag.attributes, rev, 1)
                     \o <<<<"/ul">>>>
                ELSE <<>>)
            \o <<<<"/li">>>>
            \o html_tag_lines(tags, report, rev, i + 1)

render_html_tree_string(report, rev) ==
    <<<<"ul tree">>>>
    \o html_tag_lines(sorted_by_count(report.tags, rev), report, rev, 1)
    \o <<<<"/ul">>>>

\* struct WasmAnalysisResult, wasm/mod.rs 106-111; String::new() is <<>>
WasmAnalysisResult(data, tree_view, html_tree) ==
    [data |-> data, tree_view |-> tree_view, html_tree |-> html_tree]

\* the value analyze_html returns, wasm/mod.rs 113-146
analyze_html_value(parsed, rev) ==
    LET data == analyze_html(parsed)
    IN IF parsed = None THEN WasmAnalysisResult(data, <<>>, <<>>)
       ELSE WasmAnalysisResult(data, render_tree_string(data, rev),
                               render_html_tree_string(data, rev))

\* ------------------------------------------------- ferret_server: handle
\* a str is the sequence of its characters
starts_with(str, prefix) ==
    /\ Len(str) >= Len(prefix)
    /\ SubSeq(str, 1, Len(prefix)) = prefix

HttpScheme == <<"h", "t", "t", "p", ":", "/", "/">>
HttpsScheme == <<"h", "t", "t", "p", "s", ":", "/", "/">>

\* path.trim_start_matches('/')
RECURSIVE trim_start_slashes(_)
trim_start_slashes(str) ==
    IF str # <<>> /\ str[1] = "/" THEN trim_start_slashes(Tail(str)) ELSE str

\* fn extract_target_url(path) -> Result<&str, String>, main.rs 91-108
\* every leading slash removed
extract_target_url_bad_trimall(path) ==
    LET target_url == trim_start_slashes(path)
    IN IF ~starts_with(target_url, HttpScheme)
          /\ ~starts_with(target_url, HttpsScheme)
       THEN ResultErr("Invalid URL format")
       ELSE ResultOk(target_url)

extract_target_url(path) ==
    LET target_url == IF starts_with(path, <<"/">>) THEN Tail(path) ELSE path
    IN IF ~starts_with(target_url, HttpScheme)
          /\ ~starts_with(target_url, HttpsScheme)
       THEN ResultErr("Invalid URL format")
       ELSE ResultOk(target_url)

\* async fn handle(req), main.rs 12-89; net is what the network and the
\* parser answer: [fetch_ok, err_status: Option, parse_ok].
\* The response: [status, fetched: Option<url>, analyzed]
handle(path, net) ==
    LET target == extract_target_url(path)
    IN IF ~target.ok
       THEN [status |-> 400, fetched |-> None, analyzed |-> FALSE]
       ELSE LET status == IF net.fetch_ok THEN 200
                          ELSE unwrap_or(net.err_status, 400)
            IN IF status # 200
               THEN [status |-> status, fetched |-> Some(target.value),
                     analyzed |-> FALSE]
               ELSE [status |-> IF net.parse_ok THEN 200 ELSE 500,
                     fetched |-> Some(target.value), analyzed |-> TRUE]

\* ------------------------------------------------------------ input domains
\* request paths: up to MaxPathPieces pieces one after the other
PathPieces ==
    {<<"/">>, HttpScheme, HttpsScheme, <<"f", "t", "p", ":", "/", "/">>,
     <<"h", "t", "t", "p", ":", "/">>, <<"a">>}

RECURSIVE Concat(_)
Concat(pieces) ==
    IF pieces = <<>> THEN <<>> ELSE pieces[1] \o Concat(Tail(pieces))

Paths ==
    {Concat(ps) : ps \in UNION {[1..k -> PathPieces] : k \in 0..MaxPathPieces}}

NetAnswers ==
    {[fetch_ok |-> f, err_status |-> e, parse_ok |-> p] :
        f \in BOOLEAN, e \in {None, Some(404)}, p \in BOOLEAN}

\* event lists a source can hold
SrcEvents ==
    {Ev("Start", [name |-> "div", attrs |-> <<>>]),
     Ev("Start", [name |-> "p", attrs |-> <<AttrOk("class", "a")>>]),
     Ev("Empty", [name |-> "div", attrs |-> <<AttrOk("class", "a")>>]),
     Ev("End", None), Ev("Err", None), Ev("Text", None)}

SrcEventLists == UNION {[1..k -> SrcEvents] : k \in 0..MaxSrcEvents}

\* contents handed to analyze_string
StrEvents ==
    SrcEvents
    \cup {Ev("Start", [name |-> "div",
                       attrs |-> <<AttrOk("class", "b"), AttrOk("id", "")>>])}

StrEventLists == UNION {[1..k -> StrEvents] : k \in 0..MaxSrcEvents}

\* the tokens of a finite input, an unreadable piece among them
TokenLists == UNION {[1..k -> SrcEvents] : k \in 0..MaxTokens}

FileSources ==
    {[opens |-> o, events |-> evs] : o \in BOOLEAN, evs \in SrcEventLists}

UrlResponses ==
    {[transport_ok |-> t, status |-> st, body_ok |-> b, events |-> evs] :
        t \in BOOLEAN, st \in {200, 404}, b \in BOOLEAN,
        evs \in SrcEventLists}

OptValues == {None} \cup {Some(v) : v \in AttrValues}

\* attribute lists of a tl tag: keys are unique (tl keeps them in a map)
TreeAttrs ==
    {<<>>, <<<<"class", Some("a")>>, <<"id", None>>>>}
    \cup {<<<<"class", v>>>> : v \in OptValues}

TagNode(name, attrs, ch) ==
    [kind |-> "tag", name |-> name, attrs |-> attrs, children |-> ch,
     selfclosing |-> FALSE]
RawNode ==
    [kind |-> "raw", name |-> "", attrs |-> <<>>, children |-> <<>>,
     selfclosing |-> FALSE]
CommentNode ==
    [kind |-> "comment", name |-> "", attrs |-> <<>>, children |-> <<>>,
     selfclosing |-> FALSE]

\* nodes handed to a direct visit(node, depth) call
VisitNodes ==
    {TagNode("div", a, <<>>) : a \in TreeAttrs}
    \cup {TagNode("p", <<<<"class", Some("a")>>>>, <<>>), RawNode, CommentNode}

\* the attributes written in a tag of the text: (key, Some(value)), or
\* (key, None) for a key with no =value; a tag may write a key twice
RawAttrs ==
    {<<>>, <<<<"id", None>>, <<"class", Some("a")>>>>,
     <<<<"class", Some("a")>>, <<"id", Some("")>>>>}
    \cup {<<<<"class", Some(v)>>>> : v \in AttrValues \cup {""}}

RawElems ==
    {[name |-> "div", attrs |-> a] : a \in RawAttrs}
    \cup {[name |-> "p",
            attrs |-> <<<<"class", Some("a")>>, <<"class", Some("b")>>>>]}

\* e.attributes() over the attributes of a tag: a key with no =value is an
\* Err item, and so is a key already yielded for this tag (the iterator
\* checks for duplicates); the iterator then goes on with the next attribute
TokenAttrs(attrs) ==
    [i \in 1..Len(attrs) |->
        IF attrs[i][2] = None THEN AttrErr
        ELSE IF \E j \in 1..(i - 1) :
                   attrs[j][2] # None /\ attrs[j][1] = attrs[i][1]
        THEN AttrErr
        ELSE AttrOk(attrs[i][1], attrs[i][2][1])]

\* the BytesStart of a Start / Empty event for a tag of the text
BytesStart(raw) == [name |-> raw.name, attrs |-> TokenAttrs(raw.attrs)]

\* attribute lists of a reader token: Ok(key, value) entries and Err entries
StreamAttrs == {TokenAttrs(a) : a \in RawAttrs}

StreamElems == {BytesStart(raw) : raw \in RawElems}

\* one record fed to both accumulators: a tag name and its ordered
\* (key, value) pairs
RecordPairs ==
    {<<>>, <<<<"class", "a">>, <<"id", "b">>>>,
     <<<<"id", "">>, <<"class", "c">>>>}
    \cup {<<<<"class", v>>>> : v \in AttrValues}

\* the same element as a tl tag and as a quick_xml BytesStart
AsTag(name, pairs) ==
    TagNode(name, [i \in 1..Len(pairs) |-> <<pairs[i][1], Some(pairs[i][2])>>],
            <<>>)
AsBytesStart(name, pairs) ==
    [name |-> name,
     attrs |-> [i \in 1..Len(pairs) |-> AttrOk(pairs[i][1], pairs[i][2])]]

\* ------------------------------------------------------ parsed documents
\* labels of document nodes
NodeLabels ==
    {TagNode("div", <<>>, <<>>),
     TagNode("p", <<<<"class", Some("b")>>>>, <<>>),
     [TagNode("img", <<>>, <<>>) EXCEPT !.selfclosing = TRUE],
     RawNode, CommentNode}

RECURSIVE SortedSeq(_)
SortedSeq(S) ==
    IF S = {} THEN <<>>
    ELSE LET m == CHOOSE x \in S : \A y \in S : x <= y
         IN <<m>> \o SortedSeq(S \ {m})

ChildrenOf(n, par, p) == SortedSeq({j \in 1..n : par[j] = p})

MkDoc(n, par, lab) ==
    [nodes |-> [i \in 1..n |->
                  [lab[i] EXCEPT !.children = ChildrenOf(n, par, i)]],
     roots |-> ChildrenOf(n, par, 0)]

\* every forest of n <= MaxNodes labelled nodes; only a tag that is not
\* self-closing has children
ValidTree(d) ==
    \A i \in 1..Len(d.nodes) :
        d.nodes[i].children # <<>> =>
            d.nodes[i].kind = "tag" /\ ~d.nodes[i].selfclosing

Docs ==
    UNION {
      {d \in {MkDoc(n, par, lab) :
                par \in {q \in [1..n -> 0..n] : \A i \in 1..n : q[i] < i},
                lab \in [1..n -> NodeLabels]} : ValidTree(d)}
      : n \in 0..MaxNodes}

\* the token stream of the same document text, as the reader yields it
RECURSIVE Tokens(_, _)
Tokens(d, handles) ==
    IF handles = <<>> THEN <<>>
    ELSE LET node == d.nodes[handles[1]]
             e == [name |-> node.name, attrs |-> TokenAttrs(node.attrs)]
             here ==
               CASE node.kind = "raw" -> <<Ev("Text", None)>>
                 [] node.kind = "comment" -> <<Ev("Comment", None)>>
                 [] node.selfclosing -> <<Ev("Empty", e)>>
                 [] OTHER -> <<Ev("Start", e)>> \o Tokens(d, node.children)
                             \o <<Ev("End", None)>>
         IN here \o Tokens(d, Tail(handles))

\* documents and contents of two traversals that run side by side
PairDocs == {d \in Docs : Len(d.nodes) <= MaxPairNodes}
OtherDocs == {d \in Docs : Len(d.nodes) <= MaxOtherNodes}

PairEvents ==
    {Ev("Start", [name |-> "div", attrs |-> <<>>]),
     Ev("Empty", [name |-> "div", attrs |-> <<AttrOk("class", "a")>>]),
     Ev("End", None)}

PairEventLists == UNION {[1..k -> PairEvents] : k \in 0..MaxPairEvents}

\* ------------------------------------------------------------------ state
VARIABLES
    mode,      \* which run this behaviour is: "visit", "scan" or "session"
    analyzer,  \* a StatsAnalyzer fed by direct visit calls
    sa,        \* a StreamAnalyzer
    scan,      \* locals of its analyze_reader call: result, depth, pc
    nevents,   \* visits made / reader events consumed so far
    ghost,     \* history of the inputs recorded so far (not program state)
    doc,       \* the parsed document of a FerretSession
    session,   \* the FerretSession: walker, analyzer, is_complete
    ret,       \* Some(return value of the last step call), None before any
    pulled,    \* history: the (handle, depth) items the walker has yielded
    snapshot,  \* the value last returned by get_result, or read back
               \* from JSON (None before any)
    late,      \* history: step was called on a session already complete
    call,      \* the last analyze_file / analyze_url call: fn, src, outcome
    walk,      \* a DomWalker iterated directly: walker, last item, pulls made
    other,     \* a second traversal running beside the first (None if none)
    drive      \* the loop `while session.step(chunk_size) {}`: chunk_size, pc

vars == <<mode, analyzer, sa, scan, nevents, ghost, doc, session, ret,
          pulled, snapshot, late, call, walk, other, drive>>
srcVars == <<call, walk, other, drive>>
accVars == <<analyzer, sa, scan, nevents, ghost>>
sessVars == <<doc, session, ret, pulled, snapshot, late>>

\* ------------------------------------------------- history of the inputs
AllValues == AttrValues \cup {""}
Slots == TagNames \X AttrKeys

GhostInit ==
    [seen |-> [t \in TagNames |-> 0],
     order |-> [s \in Slots |-> <<>>],
     occ |-> [s \in Slots |-> [v \in AllValues |-> 0]],
     maxarg |-> 0,
     last |-> "none",    \* type of the last reader event
     open |-> 0,         \* Start events minus End events so far
     peakopen |-> 0,     \* largest value of open so far
     stray |-> FALSE,    \* an End arrived with no element open
     peak |-> 0,         \* largest value the nesting counter has had
     bare |-> [s \in Slots |-> 0]]  \* scanned elements with the key, no =value

Range(q) == {q[i] : i \in 1..Len(q)}

\* the (key, value) pairs an element hands to the accumulator
TreePairs(node) ==
    [i \in 1..Len(node.attrs) |->
        <<node.attrs[i][1],
          IF node.attrs[i][2] = <<>> THEN "" ELSE node.attrs[i][2][1]>>]

RECURSIVE StreamPairs(_)
StreamPairs(attrs) ==
    IF attrs = <<>> THEN <<>>
    ELSE (IF attrs[1].ok THEN <<<<attrs[1].key, attrs[1].value>>>> ELSE <<>>)
         \o StreamPairs(Tail(attrs))

RECURSIVE GhostPairs(_, _, _)
GhostPairs(g, tag, pairs) ==
    IF pairs = <<>> THEN g
    ELSE LET s == <<tag, pairs[1][1]>>
             v == pairs[1][2]
         IN GhostPairs(
              [g EXCEPT !.order[s] = IF v \in Range(@) THEN @ ELSE Append(@, v),
                        !.occ[s][v] = @ + 1],
              tag, Tail(pairs))

GhostRecord(g, tag, pairs) ==
    GhostPairs([g EXCEPT !.seen[tag] = @ + 1], tag, pairs)

\* a scanned tag of the text: what its token hands to the accumulator, and
\* the keys it wrote with no =value
RECURSIVE GhostBare(_, _, _)
GhostBare(g, tag, attrs) ==
    IF attrs = <<>> THEN g
    ELSE GhostBare(IF attrs[1][2] = None
                   THEN [g EXCEPT !.bare[<<tag, attrs[1][1]>>] = @ + 1]
                   ELSE g,
                   tag, Tail(attrs))

GhostScanned(g, raw) ==
    GhostBare(GhostRecord(g, raw.name, StreamPairs(TokenAttrs(raw.attrs))),
              raw.name, raw.attrs)

\* a reader event of the given type ("Other": text, comment, ...); depth is
\* the nesting counter after it
GhostEvent(g, type, depth) ==
    LET o == CASE type = "Start" -> g.open + 1
               [] type = "End" -> g.open - 1
               [] OTHER -> g.open
    IN [g EXCEPT
          !.last = IF type \in {"Start", "Empty", "End", "Eof", "Err"}
                   THEN type ELSE "Other",
          !.open = o,
          !.peakopen = IF o > @ THEN o ELSE @,
          !.stray = @ \/ (type = "End" /\ g.open <= 0),
          !.peak = IF depth > @ THEN depth ELSE @]

\* ------------------------------------------------------------------- Init
EmptyDoc == [nodes |-> <<>>, roots |-> <<>>]

InitAcc(limit) ==
    /\ analyzer = StatsAnalyzer_new(limit)
    /\ sa = StreamAnalyzer_new(limit)
    /\ scan = analyze_reader_init
    /\ nevents = 0
    /\ ghost = GhostInit

WalkInit(d) ==
    [walker |-> DomWalker_new(d.roots), item |-> None, npulls |-> 0]

InitSess(d) ==
    /\ doc = d
    /\ session = FerretSession_new(d)
    /\ ret = None
    /\ pulled = <<>>
    /\ snapshot = None
    /\ late = FALSE

\* a run of one accumulator under a limit drawn from 0..MaxLimit
Init ==
    /\ mode \in {"visit", "scan"}
    /\ \E limit \in 0..MaxLimit : InitAcc(limit)
    /\ InitSess(EmptyDoc)
    /\ call = None
    /\ walk = WalkInit(EmptyDoc)
    /\ other = None
    /\ drive = None

\* a FerretSession over a parsed document
InitSession ==
    /\ mode = "session"
    /\ InitAcc(SessionLimit)
    /\ \E d \in Docs : InitSess(d)
    /\ call = None
    /\ walk = WalkInit(EmptyDoc)
    /\ other = None
    /\ drive = None

\* one analyze_file / analyze_url call on a StreamAnalyzer
InitSource ==
    /\ mode = "source"
    /\ \E limit \in 0..MaxLimit : InitAcc(limit)
    /\ InitSess(EmptyDoc)
    /\ call = None
    /\ walk = WalkInit(EmptyDoc)
    /\ other = None
    /\ drive = None

\* a FerretSession that its host will run a second time on the same html
InitRerun ==
    /\ mode = "rerun"
    /\ InitAcc(SessionLimit)
    /\ \E d \in Docs : InitSess(d)
    /\ call = None
    /\ walk = WalkInit(EmptyDoc)
    /\ other = None
    /\ drive = None

\* an analyze_reader call in progress: its locals and the events left
ScanCall(evs) == [scan |-> analyze_reader_init, rest |-> evs, all |-> evs]

\* two FerretSessions, or two scans by one StreamAnalyzer, side by side
InitPair ==
    /\ call = None
    /\ walk = WalkInit(EmptyDoc)
    /\ drive = None
    /\ \/ /\ mode = "pair"
          /\ InitAcc(SessionLimit)
          /\ \E d \in PairDocs : InitSess(d)
          /\ \E d \in OtherDocs :
                other = Some([doc |-> d, session |-> FerretSession_new(d)])
       \/ /\ mode = "scans"
          /\ \E limit \in 0..MaxLimit : InitAcc(limit)
          /\ InitSess(EmptyDoc)
          /\ \E evs1, evs2 \in PairEventLists :
                other = Some([a |-> ScanCall(evs1), b |-> ScanCall(evs2)])

\* a host about to construct a session and drive it by
\* `while session.step(chunk_size) {}`
InitDrive ==
    /\ mode = "drive"
    /\ InitAcc(SessionLimit)
    /\ InitSess(EmptyDoc)
    /\ call = None
    /\ walk = WalkInit(EmptyDoc)
    /\ other = None
    /\ drive = Some([chunk_size |-> 0, pc |-> "new", calls |-> 0])

\* an analyze_reader call about to enter its loop over a finite input
InitReader ==
    /\ mode = "reader"
    /\ InitAcc(SessionLimit)
    /\ InitSess(EmptyDoc)
    /\ call = None
    /\ walk = WalkInit(EmptyDoc)
    /\ drive = None
    /\ \E tokens \in TokenLists :
          other = Some([reader |-> Reader_from_reader(tokens),
                        input |-> tokens, reads |-> 0, last |-> "none"])

\* a StatsAnalyzer and a StreamAnalyzer result with the same limit, about to
\* be fed the same records
InitBoth ==
    /\ mode = "both"
    /\ \E limit \in 0..MaxLimit : InitAcc(limit)
    /\ InitSess(EmptyDoc)
    /\ call = None
    /\ walk = WalkInit(EmptyDoc)
    /\ other = None
    /\ drive = None

\* the wasm module before analyze_html is called
InitWasm ==
    /\ mode = "wasm"
    /\ InitAcc(SessionLimit)
    /\ InitSess(EmptyDoc)
    /\ call = None
    /\ walk = WalkInit(EmptyDoc)
    /\ other = None
    /\ drive = None

\* the server before a request
InitServer ==
    /\ mode = "server"
    /\ InitAcc(0)
    /\ InitSess(EmptyDoc)
    /\ call = None
    /\ walk = WalkInit(EmptyDoc)
    /\ other = None
    /\ drive = None

\* a DomWalker over a parsed document, iterated by its caller
InitWalker ==
    /\ mode = "walker"
    /\ InitAcc(SessionLimit)
    /\ \E d \in Docs : InitSess(d) /\ walk = WalkInit(d)
    /\ call = None
    /\ other = None
    /\ drive = None

\* ----------------------------------------------------------------- actions
\* a caller invokes analyzer.visit(node, depth)
Visit ==
    /\ mode = "visit"
    /\ nevents < MaxEvents
    /\ \E node \in VisitNodes, depth \in 0..MaxDepthArg :
         /\ analyzer' = visit(analyzer, node, depth)
         /\ ghost' = LET g == [ghost EXCEPT !.maxarg =
                                  IF depth > @ THEN depth ELSE @]
                     IN IF node.kind = "tag"
                        THEN GhostRecord(g, node.name, TreePairs(node))
                        ELSE g
    /\ nevents' = nevents + 1
    /\ UNCHANGED <<mode, sa, scan>>
    /\ UNCHANGED sessVars
    /\ UNCHANGED srcVars

Scanning == mode = "scan" /\ scan.pc = "loop"

\* the reader yields Event::Start(e)
ReadStart ==
    /\ Scanning
    /\ nevents < MaxEvents
    /\ \E raw \in RawElems :
         /\ scan' = scan_event(sa, scan, Ev("Start", BytesStart(raw)))
         /\ ghost' = GhostEvent(GhostScanned(ghost, raw), "Start", scan'.depth)
    /\ nevents' = nevents + 1
    /\ UNCHANGED <<mode, analyzer, sa>>
    /\ UNCHANGED sessVars
    /\ UNCHANGED srcVars

\* the reader yields Event::Empty(e)
ReadEmpty ==
    /\ Scanning
    /\ nevents < MaxEvents
    /\ \E raw \in RawElems :
         /\ scan' = scan_event(sa, scan, Ev("Empty", BytesStart(raw)))
         /\ ghost' = GhostEvent(GhostScanned(ghost, raw), "Empty", scan'.depth)
    /\ nevents' = nevents + 1
    /\ UNCHANGED <<mode, analyzer, sa>>
    /\ UNCHANGED sessVars
    /\ UNCHANGED srcVars

\* the reader yields Event::End
ReadEnd ==
    /\ Scanning
    /\ nevents < MaxEvents
    /\ scan' = scan_event(sa, scan, Ev("End", None))
    /\ ghost' = GhostEvent(ghost, "End", scan'.depth)
    /\ nevents' = nevents + 1
    /\ UNCHANGED <<mode, analyzer, sa>>
    /\ UNCHANGED sessVars
    /\ UNCHANGED srcVars

\* the reader yields an error or an event that is not an element boundary
ReadSkip ==
    /\ Scanning
    /\ nevents < MaxEvents
    /\ \E type \in {"Err", "Text", "Comment"} :
         /\ scan' = scan_event(sa, scan, Ev(type, None))
         /\ ghost' = GhostEvent(ghost, type, scan'.depth)
    /\ nevents' = nevents + 1
    /\ UNCHANGED <<mode, analyzer, sa>>
    /\ UNCHANGED sessVars
    /\ UNCHANGED srcVars

\* the reader yields Event::Eof: the loop breaks and the result is returned
ReadEof ==
    /\ Scanning
    /\ scan' = scan_event(sa, scan, Ev("Eof", None))
    /\ ghost' = GhostEvent(ghost, "Eof", scan'.depth)
    /\ UNCHANGED <<mode, analyzer, sa, nevents>>
    /\ UNCHANGED sessVars
    /\ UNCHANGED srcVars

\* the host calls session.step(chunk_size)
Step ==
    /\ mode \in {"session", "rerun", "pair"}
    /\ \E chunk_size \in 0..MaxChunk :
         LET r == step(session, doc, chunk_size)
         IN /\ session' = r.session
            /\ ret' = Some(r.ret)
            /\ pulled' = pulled \o r.items
    /\ late' = (late \/ session.is_complete)
    /\ UNCHANGED <<mode, doc, snapshot>>
    /\ UNCHANGED accVars
    /\ UNCHANGED srcVars

\* the host calls session.get_result()
GetResult ==
    /\ mode = "session"
    /\ LET r == get_result_call(session)
       IN /\ snapshot' = Some(r.value)
          /\ session' = r.session
    /\ UNCHANGED <<mode, doc, ret, pulled, late>>
    /\ UNCHANGED accVars
    /\ UNCHANGED srcVars

\* the host keeps the result of the finished session and constructs a new
\* FerretSession over the same html
Rerun_bad_keepanalyzer ==
    /\ mode = "rerun"
    /\ session.is_complete
    /\ snapshot = None
    /\ snapshot' = Some(get_result(session))
    /\ session' = [FerretSession_new(doc) EXCEPT !.analyzer = session.analyzer]
    /\ ret' = None
    /\ pulled' = <<>>
    /\ late' = FALSE
    /\ UNCHANGED <<mode, doc>>
    /\ UNCHANGED accVars
    /\ UNCHANGED srcVars

Rerun ==
    /\ mode = "rerun"
    /\ session.is_complete
    /\ snapshot = None
    /\ snapshot' = Some(get_result(session))
    /\ session' = FerretSession_new(doc)
    /\ ret' = None
    /\ pulled' = <<>>
    /\ late' = FALSE
    /\ UNCHANGED <<mode, doc>>
    /\ UNCHANGED accVars
    /\ UNCHANGED srcVars

\* the host calls step(chunk_size) on the second session
\* the second session's visits land in the first one's analyzer
StepOther_bad_sharedanalyzer ==
    /\ mode = "pair"
    /\ \E chunk_size \in 0..MaxChunk :
         LET mine == [other[1].session EXCEPT !.analyzer = session.analyzer]
             r == step(mine, other[1].doc, chunk_size)
         IN /\ other' = Some([other[1] EXCEPT
                                !.session = [r.session EXCEPT !.analyzer =
                                               other[1].session.analyzer]])
            /\ session' = [session EXCEPT !.analyzer = r.session.analyzer]
    /\ UNCHANGED <<mode, doc, ret, pulled, snapshot, late, call, walk, drive>>
    /\ UNCHANGED accVars

StepOther ==
    /\ mode = "pair"
    /\ \E chunk_size \in 0..MaxChunk :
         LET r == step(other[1].session, other[1].doc, chunk_size)
         IN other' = Some([other[1] EXCEPT !.session = r.session])
    /\ UNCHANGED <<mode, call, walk, drive>>
    /\ UNCHANGED accVars
    /\ UNCHANGED sessVars

\* one loop iteration of an analyze_reader call in progress: the reader
\* yields its next event, Eof after the last
scan_next(self, c) ==
    IF c.rest = <<>>
    THEN [c EXCEPT !.scan = scan_event(self, c.scan, Ev("Eof", None))]
    ELSE [c EXCEPT !.scan = scan_event(self, c.scan, c.rest[1]),
                   !.rest = Tail(c.rest)]

\* the two analyze_string calls on the one StreamAnalyzer take turns
ScanA ==
    /\ mode = "scans"
    /\ other[1].a.scan.pc = "loop"
    /\ other' = Some([other[1] EXCEPT !.a = scan_next(sa, other[1].a)])
    /\ UNCHANGED <<mode, call, walk, drive>>
    /\ UNCHANGED accVars
    /\ UNCHANGED sessVars

ScanB ==
    /\ mode = "scans"
    /\ other[1].b.scan.pc = "loop"
    /\ other' = Some([other[1] EXCEPT !.b = scan_next(sa, other[1].b)])
    /\ UNCHANGED <<mode, call, walk, drive>>
    /\ UNCHANGED accVars
    /\ UNCHANGED sessVars

\* one iteration of the loop of analyze_reader, stream.rs 142-168: the
\* reader is asked for the next event and the match arm for it runs
ReadLoop ==
    /\ mode = "reader"
    /\ scan.pc = "loop"
    /\ other[1].reads < MaxTokens + 3
    /\ LET r == read_event_into(other[1].reader)
       IN /\ scan' = scan_event(sa, scan, r.event)
          /\ other' = Some([other[1] EXCEPT !.reader = r.reader,
                                            !.reads = @ + 1,
                                            !.last = r.event.type])
    /\ UNCHANGED <<mode, analyzer, sa, nevents, ghost>>
    /\ UNCHANGED <<call, walk, drive>>
    /\ UNCHANGED sessVars

\* the same element is handed to StatsAnalyzer::visit and to
\* StreamAnalyzer::process_element
RecordBoth ==
    /\ mode = "both"
    /\ nevents < MaxEvents
    /\ \E name \in TagNames, pairs \in RecordPairs :
         /\ analyzer' = visit(analyzer, AsTag(name, pairs), 0)
         /\ scan' = [scan EXCEPT !.result =
                        process_element(sa, AsBytesStart(name, pairs), @)]
    /\ nevents' = nevents + 1
    /\ UNCHANGED <<mode, sa, ghost>>
    /\ UNCHANGED sessVars
    /\ UNCHANGED srcVars

\* the host calls analyze_html(content); FerretParser::parse gives a
\* document or fails
AnalyzeHtml ==
    /\ mode = "wasm"
    /\ call = None
    /\ \E parsed \in {None} \cup {Some(d) : d \in Docs}, rev \in BOOLEAN :
         call' = Some([fn |-> "analyze_html", src |-> parsed,
                       out |-> analyze_html_value(parsed, rev)])
    /\ UNCHANGED <<mode, walk, other, drive>>
    /\ UNCHANGED accVars
    /\ UNCHANGED sessVars

\* a request for path arrives and is answered
Handle ==
    /\ mode = "server"
    /\ call = None
    /\ \E path \in Paths, net \in NetAnswers :
         call' = Some([fn |-> "handle", src |-> [path |-> path, net |-> net],
                       out |-> handle(path, net)])
    /\ UNCHANGED <<mode, walk, other, drive>>
    /\ UNCHANGED accVars
    /\ UNCHANGED sessVars

\* let mut session = FerretSession::new(html), before the loop
DriveNew ==
    /\ mode = "drive"
    /\ drive[1].pc = "new"
    /\ \E d \in Docs, chunk_size \in 0..MaxChunk :
         /\ doc' = d
         /\ session' = FerretSession_new(d)
         /\ drive' = Some([chunk_size |-> chunk_size, pc |-> "loop",
                            calls |-> 0])
    /\ UNCHANGED <<mode, ret, pulled, snapshot, late, call, walk, other>>
    /\ UNCHANGED accVars

\* one evaluation of the loop condition session.step(chunk_size): the loop
\* goes on when it is true and is left when it is false
DriveStep ==
    /\ mode = "drive"
    /\ drive[1].pc = "loop"
    /\ drive[1].calls < MaxNodes + 2
    /\ LET r == step(session, doc, drive[1].chunk_size)
       IN /\ session' = r.session
          /\ ret' = Some(r.ret)
          /\ pulled' = pulled \o r.items
          /\ drive' = Some([drive[1] EXCEPT
                              !.pc = IF r.ret THEN "loop" ELSE "done",
                              !.calls = @ + 1])
    /\ UNCHANGED <<mode, doc, snapshot, late, call, walk, other>>
    /\ UNCHANGED accVars

\* a caller invokes analyzer.analyze_file(path)
AnalyzeFile ==
    /\ mode = "source"
    /\ call = None
    /\ \E file \in FileSources :
         call' = Some([fn |-> "analyze_file", src |-> file,
                       out |-> analyze_file(sa, file)])
    /\ UNCHANGED <<mode, walk, other, drive>>
    /\ UNCHANGED accVars
    /\ UNCHANGED sessVars

\* a caller invokes analyzer.analyze_url(url) and the fetch answers resp
AnalyzeUrl ==
    /\ mode = "source"
    /\ call = None
    /\ \E resp \in UrlResponses :
         call' = Some([fn |-> "analyze_url", src |-> resp,
                       out |-> analyze_url(sa, resp)])
    /\ UNCHANGED <<mode, walk, other, drive>>
    /\ UNCHANGED accVars
    /\ UNCHANGED sessVars

\* the caller pulls the next item: walker.next()
Pull ==
    /\ mode = "walker"
    /\ walk.npulls < MaxPulls
    /\ LET nx == DomWalker_next(walk.walker, doc)
       IN /\ walk' = [walker |-> nx.walker, item |-> nx.item,
                      npulls |-> walk.npulls + 1]
          /\ pulled' = IF nx.item = None THEN pulled
                       ELSE Append(pulled, nx.item[1])
    /\ UNCHANGED <<mode, doc, session, ret, snapshot, late, call, other, drive>>
    /\ UNCHANGED accVars

\* a caller invokes analyzer.analyze_string(content)
AnalyzeString ==
    /\ mode = "source"
    /\ call = None
    /\ \E evs \in StrEventLists :
         call' = Some([fn |-> "analyze_string", src |-> [events |-> evs],
                       out |-> Outcome(ResultOk(analyze_string(sa, evs)),
                                       TRUE)])
    /\ UNCHANGED <<mode, walk, other, drive>>
    /\ UNCHANGED accVars
    /\ UNCHANGED sessVars

\* the caller writes the returned result as JSON and reads it back
RoundTrip ==
    /\ mode = "source"
    /\ call # None
    /\ call[1].out.ret.ok
    /\ snapshot = None
    /\ \E rev \in BOOLEAN :
         snapshot' = Some(from_str(to_string(call[1].out.ret.value, rev)))
    /\ UNCHANGED <<mode, doc, session, ret, pulled, late, call, walk, other,
                   drive>>
    /\ UNCHANGED accVars

Next == Visit \/ ReadStart \/ ReadEmpty \/ ReadEnd \/ ReadSkip \/ ReadEof

NextSession == Step \/ GetResult

Spec == Init /\ [][Next]_vars

SpecSession == InitSession /\ [][NextSession]_vars

NextSource == AnalyzeFile \/ AnalyzeUrl \/ AnalyzeString \/ RoundTrip

SpecSource == InitSource /\ [][NextSource]_vars

NextWalker == Pull

NextReader == ReadLoop

NextBoth == RecordBoth

NextWasm == AnalyzeHtml

SpecWasm == InitWasm /\ [][NextWasm]_vars

SpecBoth == InitBoth /\ [][NextBoth]_vars

SpecReader == InitReader /\ [][NextReader]_vars

NextRerun == Step \/ Rerun

NextServer == Handle

NextDrive == DriveNew \/ DriveStep

\* the loop is sequential code that keeps running: weak fairness of its step
SpecDrive == InitDrive /\ [][NextDrive]_vars

SpecServer == InitServer /\ [][NextServer]_vars

NextPair == Step \/ StepOther \/ ScanA \/ ScanB

SpecPair == InitPair /\ [][NextPair]_vars

SpecRerun == InitRerun /\ [][NextRerun]_vars

SpecWalker == InitWalker /\ [][NextWalker]_vars

\* ------------------------------------------------------- views of the state
\* the result being accumulated, and the admission limit of the run
Res ==
    CASE mode = "visit" -> analyzer.result
      [] mode = "scan" -> scan.result
      [] OTHER -> session.analyzer.result

Limit ==
    CASE mode = "visit" -> analyzer.top_values_limit
      [] mode = "scan" -> sa.top_values_limit
      [] OTHER -> session.analyzer.top_values_limit

HasAttr(s) ==
    /\ s[1] \in DOMAIN Res.tags
    /\ s[2] \in DOMAIN Res.tags[s[1]].attributes

\* histogram, attribute count and tag count, read as empty / 0 when absent
HistOf(s) ==
    IF HasAttr(s) THEN Res.tags[s[1]].attributes[s[2]].value_counts
    ELSE EmptyMap
AttrCount(s) ==
    IF HasAttr(s) THEN Res.tags[s[1]].attributes[s[2]].count ELSE 0
TagCount(t) == IF t \in DOMAIN Res.tags THEN Res.tags[t].count ELSE 0

RECURSIVE SumOver(_, _)
SumOver(f, S) ==
    IF S = {} THEN 0
    ELSE LET x == CHOOSE y \in S : TRUE IN f[x] + SumOver(f, S \ {x})
HistSum(s) == SumOver(HistOf(s), DOMAIN HistOf(s))

\* inputs: how many elements carried the key, and whether a value was ever
\* refused admission (a new distinct value arriving after L distinct ones)
Carried(s) == SumOver(ghost.occ[s], AllValues)
EverRejected(s) == Len(ghost.order[s]) > Limit
FirstDistinct(s) ==
    {ghost.order[s][i] :
        i \in 1..(IF Len(ghost.order[s]) < Limit
                  THEN Len(ghost.order[s]) ELSE Limit)}

\* --------------------------------------------------------------- the claims
\* C1: every value_counts histogram of every (tag, attribute) holds at most
\* L distinct keys, in every reachable state of either accumulator.
C1_HistogramAtMostL ==
    \A t \in DOMAIN Res.tags :
        \A k \in DOMAIN Res.tags[t].attributes :
            len(Res.tags[t].attributes[k].value_counts) <= Limit

C1_Witness ==
    \E s \in Slots :
        /\ Limit = 2
        /\ len(HistOf(s)) = 2
        /\ Len(ghost.order[s]) = 3

\* C2: the key set of a histogram is exactly the first L distinct values in
\* encounter order (all of them if fewer than L occurred), so a later new
\* distinct value is absent; once it holds L keys its key set never changes.
C2_KeySetIsFirstL == \A s \in Slots : DOMAIN HistOf(s) = FirstDistinct(s)

C2_Frozen ==
    \A s \in Slots :
        len(HistOf(s)) = Limit => DOMAIN HistOf(s)' = DOMAIN HistOf(s)

C2_FirstSeenWins == [](C2_KeySetIsFirstL) /\ [][C2_Frozen]_vars

C2_Witness ==
    \E s \in Slots :
        /\ Limit = 1
        /\ ghost.order[s] = <<"b", "a">>
        /\ DOMAIN HistOf(s) = {"b"}

\* C3: the count of every tracked value equals the exact number of times the
\* value was recorded for that (tag, attribute), also for repeats that arrive
\* when the histogram is at capacity (a,b,c,a with L=2 gives a=2, b=1).
C3_TrackedCountsExact ==
    \A s \in Slots :
        \A v \in DOMAIN HistOf(s) : HistOf(s)[v] = ghost.occ[s][v]

C3_Witness ==
    /\ Limit = 2
    /\ ghost.order[<<"div", "class">>] = <<"a", "b", "c">>
    /\ ghost.occ[<<"div", "class">>]["a"] = 2
    /\ HistOf(<<"div", "class">>) = [v \in {"a", "b"} |-> IF v = "a" THEN 2 ELSE 1]

\* C4: when a new distinct value arrives for a histogram that already holds
\* L keys, the histogram is left unchanged, while the owning
\* AttributeStats.count and TagStats.count are incremented for that visit.
C4_DropStep ==
    \A s \in Slots : \A v \in AllValues :
        (/\ ghost.occ[s][v]' = ghost.occ[s][v] + 1
         /\ v \notin DOMAIN HistOf(s)
         /\ len(HistOf(s)) >= Limit)
        => /\ HistOf(s)' = HistOf(s)
           /\ AttrCount(s)' = AttrCount(s) + 1
           /\ TagCount(s[1])' = TagCount(s[1]) + 1

C4_DropLeavesHistogram == [][C4_DropStep]_vars

C4_Witness ==
    \E s \in Slots :
        /\ Limit = 1
        /\ Len(ghost.order[s]) = 3
        /\ HistSum(s) = 1
        /\ AttrCount(s) = 3

\* C5: AttributeStats.count >= the sum of its histogram's counts, with
\* equality if and only if no value was ever rejected for that (T, A).
C5_CountVsHistogramSum ==
    \A s \in Slots :
        /\ AttrCount(s) >= HistSum(s)
        /\ (AttrCount(s) = HistSum(s)) <=> ~EverRejected(s)

C5_Witness ==
    \E s \in Slots :
        /\ Limit >= 1
        /\ EverRejected(s)
        /\ HistSum(s) >= 2
        /\ AttrCount(s) > HistSum(s)

\* C6: with L = 0 every histogram stays empty while AttributeStats.count
\* still counts every element that carries the attribute.
C6_ZeroLimit ==
    Limit = 0 =>
        \A s \in Slots :
            /\ HistOf(s) = EmptyMap
            /\ AttrCount(s) = Carried(s)

C6_Witness ==
    /\ Limit = 0
    /\ \E s \in Slots : HasAttr(s) /\ AttrCount(s) >= 2 /\ HistOf(s) = EmptyMap

\* C7: TagStats[T].count equals the number of element visits named T,
\* whatever attributes they carry; T is a key iff an element T was visited.
C7_TagCountExact ==
    /\ DOMAIN Res.tags \subseteq TagNames
    /\ \A t \in TagNames :
          /\ (t \in DOMAIN Res.tags) <=> (ghost.seen[t] >= 1)
          /\ TagCount(t) = ghost.seen[t]

C7_Witness ==
    /\ TagCount("div") = 3
    /\ "p" \notin DOMAIN Res.tags
    /\ AttrCount(<<"div", "class">>) = 1
    /\ AttrCount(<<"div", "id">>) = 1

\* ------------------------------------------------ claims about a session
\* the recursive preorder walk: roots at depth 0, a child one deeper than
\* its parent, children in document order
RECURSIVE Preorder(_, _, _)
Preorder(d, handles, depth) ==
    IF handles = <<>> THEN <<>>
    ELSE <<<<handles[1], depth>>>>
         \o Preorder(d, d.nodes[handles[1]].children, depth + 1)
         \o Preorder(d, Tail(handles), depth)

TagCounts(r) == [t \in DOMAIN r.tags |-> r.tags[t].count]

\* C8: for a well-formed document the tree traversal (DomWalker feeding
\* StatsAnalyzer) and the streaming scan of the same text give the same set
\* of tag names and the same count for every tag name.
C8_SameTagCounts ==
    session.is_complete =>
        TagCounts(session.analyzer.result)
          = TagCounts(analyze_string(StreamAnalyzer_new(SessionLimit),
                                     Tokens(doc, doc.roots)))

C8_Witness ==
    /\ session.is_complete
    /\ Len(pulled) = 3
    /\ TagCount("img") = 1
    /\ TagCount("p") = 1
    /\ \E i \in 1..3 : pulled[i][2] = 1 /\ doc.nodes[pulled[i][1]].kind = "raw"

\* C9: the (node, depth) pairs DomWalker yields are those of the recursive
\* preorder walk, in that order; after a node with children is pulled, the
\* next pull is its leftmost child.
C9_PreorderPulls ==
    LET pre == Preorder(doc, doc.roots, 0)
        n == Len(pulled)
    IN /\ n <= Len(pre)
       /\ pulled = SubSeq(pre, 1, n)
       /\ session.is_complete => n = Len(pre)
       /\ (n > 0 /\ doc.nodes[pulled[n][1]].children # <<>>) =>
             session.walker[1].queue[1]
               = <<doc.nodes[pulled[n][1]].children[1], pulled[n][2] + 1>>

C9_Witness ==
    /\ session.is_complete
    /\ Len(doc.roots) = 1
    /\ Len(doc.nodes[doc.roots[1]].children) = 2
    /\ Len(pulled) = 3

\* C10: a session driven to completion by any sequence of step(chunk_size)
\* calls, with other calls in between, ends with the same tags and max_depth
\* as one uninterrupted traversal of the same document.
C10_ChunkedEqualsWhole ==
    session.is_complete =>
        /\ session.analyzer.result.tags = analyze_html(Some(doc)).tags
        /\ session.analyzer.result.max_depth
             = analyze_html(Some(doc)).max_depth

C10_Witness ==
    /\ session.is_complete
    /\ Len(pulled) = 3
    /\ Res.max_depth = 2
    /\ snapshot # None
    /\ snapshot[1].files_analyzed = 0
    /\ len(snapshot[1].tags) = 1
    /\ len(Res.tags) = 2

\* --------------------------------------------- claims about the stream scan
\* a step of the scan that consumed one reader event
ScanStep == mode = "scan" /\ nevents' = nevents + 1

TotalTags == SumOver([t \in TagNames |-> TagCount(t)], TagNames)

\* C11: an element-open event increments the nesting counter by exactly one
\* and records the element at the new depth; a self-closing event records
\* the element and leaves the nesting counter (and max_depth) unchanged.
C11_Step ==
    ScanStep =>
        /\ ghost'.last = "Start" =>
              /\ scan'.depth = scan.depth + 1
              /\ scan'.result.max_depth >= scan'.depth
              /\ TotalTags' = TotalTags + 1
        /\ ghost'.last = "Empty" =>
              /\ scan'.depth = scan.depth
              /\ scan'.result.max_depth = scan.result.max_depth
              /\ TotalTags' = TotalTags + 1

C11_OpenNestsEmptyDoesNot == [][C11_Step]_vars

C11_Witness ==
    /\ mode = "scan"
    /\ ghost.last = "Empty"
    /\ scan.depth = 1
    /\ scan.result.max_depth = 1
    /\ TagCount("div") = 1
    /\ TagCount("p") = 1

\* C12: the nesting counter never goes below zero; an element-close
\* decrements it by one only when it is greater than zero, a stray close at
\* zero changes nothing and is no error (the close carries no name check).
C12_EndStep ==
    (ScanStep /\ ghost'.last = "End") =>
        /\ scan'.depth = IF scan.depth > 0 THEN scan.depth - 1 ELSE 0
        /\ scan'.result = scan.result
        /\ scan'.pc = "loop"

C12_CounterNeverNegative == [](scan.depth >= 0) /\ [][C12_EndStep]_vars

C12_Witness ==
    /\ mode = "scan"
    /\ ghost.stray
    /\ ghost.last = "End"
    /\ scan.depth = 0
    /\ TagCount("div") = 1

\* C13: max_depth equals the largest value the nesting counter ever reached;
\* when no close was stray this is the largest number of simultaneously
\* open elements, a root element counting as depth 1 (four nested opens
\* give 4).
C13_MaxDepthIsPeak ==
    mode = "scan" =>
        /\ scan.result.max_depth = ghost.peak
        /\ ~ghost.stray => scan.result.max_depth = ghost.peakopen

C13_Witness ==
    /\ mode = "scan"
    /\ scan.pc = "returned"
    /\ ~ghost.stray
    /\ TagCount("div") = 3
    /\ TagCount("p") = 1
    /\ scan.result.max_depth = 4

\* ------------------------------------------- claims about the accumulators
\* C14: in tree mode max_depth equals the largest depth argument of all
\* visits so far (0 if none), non-element nodes included, and it never
\* decreases.
C14_MaxDepthIsMaxArg ==
    /\ [](mode = "visit" => analyzer.result.max_depth = ghost.maxarg)
    /\ [][analyzer'.result.max_depth >= analyzer.result.max_depth]_vars

C14_Witness ==
    /\ mode = "visit"
    /\ nevents = 3
    /\ analyzer.result.max_depth = 1
    /\ TagCount("div") = 1
    /\ TagCount("p") = 0

\* C15: every successful run of either strategy returns files_analyzed == 1
\* and max_depth >= 0, whatever the input, malformed input included.
C15_FilesAnalyzedOne ==
    /\ (mode = "scan" /\ scan.pc = "returned") =>
          /\ scan.result.files_analyzed = 1
          /\ scan.result.max_depth >= 0
    /\ mode = "visit" =>
          /\ result(analyzer).files_analyzed = 1
          /\ result(analyzer).max_depth >= 0

C15_Witness ==
    /\ mode = "scan"
    /\ scan.pc = "returned"
    /\ ghost.stray
    /\ TagCount("div") = 2
    /\ scan.result.files_analyzed = 1

\* C16: for empty input (no tokens / no root nodes) the result has an empty
\* tags map, max_depth == 0 and files_analyzed == 1.
EmptyResult == [tags |-> EmptyMap, files_analyzed |-> 1, max_depth |-> 0]

C16_EmptyInput ==
    /\ (mode = "scan" /\ scan.pc = "returned" /\ nevents = 0) =>
          scan.result = EmptyResult
    /\ (mode = "visit" /\ nevents = 0) => result(analyzer) = EmptyResult
    /\ analyze_html(Some(EmptyDoc)) = EmptyResult

C16_Witness ==
    /\ mode = "scan"
    /\ scan.pc = "returned"
    /\ nevents = 0
    /\ ghost.last = "Eof"

\* C17: the accumulator is append/increment-only: no tag key, attribute key
\* or histogram key is ever removed, and no count and not max_depth ever
\* decreases from one state to the next.
Monotone(r1, r2) ==
    /\ r2.max_depth >= r1.max_depth
    /\ \A t \in DOMAIN r1.tags :
          /\ t \in DOMAIN r2.tags
          /\ r2.tags[t].count >= r1.tags[t].count
          /\ \A k \in DOMAIN r1.tags[t].attributes :
                /\ k \in DOMAIN r2.tags[t].attributes
                /\ r2.tags[t].attributes[k].count
                     >= r1.tags[t].attributes[k].count
                /\ \A v \in DOMAIN r1.tags[t].attributes[k].value_counts :
                      /\ v \in DOMAIN r2.tags[t].attributes[k].value_counts
                      /\ r2.tags[t].attributes[k].value_counts[v]
                           >= r1.tags[t].attributes[k].value_counts[v]

C17_IncrementOnly == [][Monotone(Res, Res')]_vars

C17_Witness ==
    /\ TagCount("div") = 3
    /\ TagCount("p") = 1
    /\ len(HistOf(<<"div", "class">>)) = 2
    /\ \E v \in AllValues :
          /\ v \in DOMAIN HistOf(<<"div", "class">>)
          /\ HistOf(<<"div", "class">>)[v] = 2

\* C18: recording an element with tag T and attribute keys K leaves every
\* other TagStats unchanged and, within T, every AttributeStats whose key is
\* not in K; the limit applies to each (tag, attribute) histogram on its
\* own, so a full histogram never blocks admission into another.
TagStatsOf(t) == IF t \in DOMAIN Res.tags THEN Res.tags[t] ELSE None
AttrStatsOf(s) ==
    IF HasAttr(s) THEN Res.tags[s[1]].attributes[s[2]] ELSE None

C18_Step ==
    /\ \A t \in TagNames :
          ghost'.seen[t] = ghost.seen[t] => TagStatsOf(t)' = TagStatsOf(t)
    /\ \A s \in Slots :
          Carried(s)' = Carried(s) => AttrStatsOf(s)' = AttrStatsOf(s)
    /\ \A s \in Slots : \A v \in AllValues :
          (/\ ghost'.occ[s][v] = ghost.occ[s][v] + 1
           /\ len(HistOf(s)) < Limit)
          => v \in DOMAIN HistOf(s)'

C18_NoCrossInteraction == [][C18_Step]_vars

C18_Witness ==
    /\ Limit = 1
    /\ EverRejected(<<"div", "class">>)
    /\ len(HistOf(<<"div", "class">>)) = 1
    /\ len(HistOf(<<"div", "id">>)) = 1
    /\ TagCount("p") = 1

\* ------------------------------------------------- claims about failures
\* C19: a malformed token or attribute never aborts the scan: a read error
\* leaves the accumulator and the nesting counter unchanged and the loop
\* running, elements (also ones carrying a malformed attribute) are counted
\* whatever came before, and the scan never ends in an error.
C19_ErrStep ==
    (ScanStep /\ ghost'.last = "Err") =>
        /\ scan'.result = scan.result
        /\ scan'.depth = scan.depth
        /\ scan'.pc = "loop"

C19_Counted ==
    mode = "scan" =>
        /\ scan.pc \in {"loop", "returned"}
        /\ \A t \in TagNames : TagCount(t) = ghost.seen[t]
        /\ \A s \in Slots : AttrCount(s) = Carried(s)

Unreadable(c) ==
    \/ c.fn = "analyze_file" /\ ~c.src.opens
    \/ c.fn = "analyze_url"
       /\ (~c.src.transport_ok \/ c.src.status \notin 200..299
           \/ ~c.src.body_ok)

C20_UnreadableSourceFails ==
    (call # None /\ Unreadable(call[1])) =>
        /\ ~call[1].out.ret.ok
        /\ "value" \notin DOMAIN call[1].out.ret
        /\ ~call[1].out.scanned

C20_Witness ==
    /\ call # None
    /\ call[1].fn = "analyze_url"
    /\ call[1].src.transport_ok
    /\ call[1].src.body_ok
    /\ call[1].src.status = 404
    /\ Len(call[1].src.events) = 2
    /\ ~call[1].out.ret.ok

\* ------------------------------------------ claims about valueless keys
\* how many recorded elements wrote the key of slot s with no =value
Valueless(s) == IF mode = "visit" THEN ghost.occ[s][""] ELSE ghost.bare[s]

\* C21: an attribute key with no =value is present with the empty string as
\* its value, never an error: the step that records such an element
\* increments AttributeStats[key].count and passes "" through the normal
\* admission policy of the histogram.
C21_Step ==
    \A s \in Slots :
        Valueless(s)' = Valueless(s) + 1 =>
            /\ AttrCount(s)' = AttrCount(s) + 1
            /\ IF len(HistOf(s)) < Limit \/ "" \in DOMAIN HistOf(s)
               THEN /\ "" \in DOMAIN HistOf(s)'
                    /\ HistOf(s)'[""] =
                         (IF "" \in DOMAIN HistOf(s) THEN HistOf(s)[""] ELSE 0)
                         + 1
               ELSE HistOf(s)' = HistOf(s)

C21_ValuelessKeyPresent == [][C21_Step]_vars

\* ------------------------------------------------ claims about the walker
\* C22: over a tree of N nodes a DomWalker yields every node exactly once;
\* a pull returns None exactly when the queue is empty, which is the case
\* exactly after N items, and once None was returned every later pull
\* returns None.
Handles(q) == {q[i][1] : i \in 1..Len(q)}

C22_EachOnce ==
    mode = "walker" =>
        /\ \A i, j \in 1..Len(pulled) : pulled[i][1] = pulled[j][1] => i = j
        /\ Handles(pulled) \subseteq 1..Len(doc.nodes)
        /\ (walk.walker.queue = <<>>) <=> (Len(pulled) = Len(doc.nodes))
        /\ (walk.npulls > 0 /\ walk.item = None) =>
              /\ Handles(pulled) = 1..Len(doc.nodes)
              /\ walk.npulls > Len(doc.nodes)

C22_PullStep ==
    (mode = "walker" /\ walk'.npulls = walk.npulls + 1) =>
        /\ (walk'.item = None) <=> (walk.walker.queue = <<>>)
        /\ (walk.npulls > 0 /\ walk.item = None) => walk'.item = None

C22_WalkerExhausts == [](C22_EachOnce) /\ [][C22_PullStep]_vars

C22_Witness ==
    /\ mode = "walker"
    /\ Len(doc.nodes) = 3
    /\ Len(doc.roots) = 2
    /\ Len(pulled) = 3
    /\ walk.npulls = 5
    /\ walk.item = None

\* --------------------------------------------- claims about serialization
\* C23: writing an AnalysisResult as JSON and reading it back gives the same
\* tags key set, the same tag, attribute and value counts, the same
\* files_analyzed and the same max_depth, whatever order the maps are
\* written in.
C23_RoundTrip ==
    (mode = "source" /\ snapshot # None) =>
        /\ snapshot[1].ok
        /\ LET r == call[1].out.ret.value
               back == snapshot[1].value
           IN /\ DOMAIN back.tags = DOMAIN r.tags
              /\ back.tags = r.tags
              /\ back.files_analyzed = r.files_analyzed
              /\ back.max_depth = r.max_depth

C23_Witness ==
    /\ mode = "source"
    /\ snapshot # None
    /\ call[1].fn = "analyze_string"
    /\ len(call[1].out.ret.value.tags) = 2
    /\ call[1].out.ret.value.max_depth = 2
    /\ snapshot[1].ok
    /\ \E t \in DOMAIN snapshot[1].value.tags :
          /\ len(snapshot[1].value.tags[t].attributes) = 2
          /\ snapshot[1].value.tags[t].count = 1

\* ------------------------------------------------ claims about repeated runs
\* C24: a second run of the same analysis on the unchanged document gives a
\* result equal to the first (same tag, attribute and value keys, same
\* counts, same max_depth): the second run starts from a fresh empty result,
\* its counts are not added to those of the first.
C24_SecondRunEqual ==
    (mode = "rerun" /\ snapshot # None) =>
        /\ ~session.is_complete =>
              \A t \in DOMAIN Res.tags :
                  /\ t \in DOMAIN snapshot[1].tags
                  /\ Res.tags[t].count <= snapshot[1].tags[t].count
        /\ session.is_complete => get_result(session) = snapshot[1]

C24_Witness ==
    /\ mode = "rerun"
    /\ snapshot # None
    /\ session.is_complete
    /\ Len(pulled) = 3
    /\ TagCount("div") = 2
    /\ TagCount("p") = 1
    /\ snapshot[1].tags["div"].count = 2

\* ------------------------------------------- claims about concurrent runs
\* C25: two traversals that each own their accumulator share no mutable
\* state: however the steps of two FerretSessions, or of two analyze_string
\* calls on one StreamAnalyzer, are interleaved, each final result is the
\* result that analysis gives when run alone.
Alone(d) == [analyze_html(Some(d)) EXCEPT !.files_analyzed = 1]

C25_IndependentRuns ==
    /\ mode = "pair" =>
          /\ session.is_complete => get_result(session) = Alone(doc)
          /\ other[1].session.is_complete =>
                get_result(other[1].session) = Alone(other[1].doc)
    /\ mode = "scans" =>
          /\ other[1].a.scan.pc = "returned" =>
                other[1].a.scan.result = analyze_string(sa, other[1].a.all)
          /\ other[1].b.scan.pc = "returned" =>
                other[1].b.scan.result = analyze_string(sa, other[1].b.all)

C25_Witness ==
    /\ mode = "pair"
    /\ session.is_complete
    /\ other[1].session.is_complete
    /\ Len(doc.nodes) = 2
    /\ TagCount("div") = 2
    /\ Len(other[1].doc.nodes) = 1
    /\ "p" \in DOMAIN other[1].session.analyzer.result.tags

C25_WitnessScans ==
    /\ mode = "scans"
    /\ other[1].a.scan.pc = "returned"
    /\ other[1].b.scan.pc = "returned"
    /\ other[1].a.scan.result.max_depth = 2
    /\ other[1].b.scan.result.max_depth = 0
    /\ len(other[1].b.scan.result.tags) = 1

\* ----------------------------------------------- claims about the server
\* the path without its first character when that is a slash
AfterOneSlash(path) ==
    IF path # <<>> /\ path[1] = "/" THEN SubSeq(path, 2, Len(path)) ELSE path

HasHttpScheme(str) ==
    \/ Len(str) >= 7 /\ SubSeq(str, 1, 7) = <<"h", "t", "t", "p", ":", "/", "/">>
    \/ Len(str) >= 8
       /\ SubSeq(str, 1, 8) = <<"h", "t", "t", "p", "s", ":", "/", "/">>

\* C26: the target URL is the request path without at most one leading '/',
\* accepted if and only if it starts with http:// or https://; for every
\* other path the answer is 400 Bad Request and nothing is fetched or
\* analysed.
C26_TargetUrl ==
    (mode = "server" /\ call # None) =>
        LET path == call[1].src.path
            out == call[1].out
        IN IF HasHttpScheme(AfterOneSlash(path))
           THEN out.fetched = Some(AfterOneSlash(path))
           ELSE /\ out.status = 400
                /\ out.fetched = None
                /\ ~out.analyzed

C26_Witness ==
    /\ mode = "server"
    /\ call # None
    /\ Len(call[1].src.path) >= 10
    /\ SubSeq(call[1].src.path, 1, 2) = <<"/", "/">>
    /\ starts_with(SubSeq(call[1].src.path, 3, Len(call[1].src.path)),
                   HttpsScheme)
    /\ call[1].src.net.fetch_ok
    /\ call[1].out.status = 400
    /\ call[1].out.fetched = None

\* ------------------------------------------ claims about step's return value
\* C27: step returns true only when more work is available: after a call
\* that returned true at least one node of the document has not been pulled
\* from the walker, and after a call that returned false the traversal is
\* exhausted.
C27_TrueOnlyWithMoreWork ==
    (mode = "session" /\ ret # None) =>
        /\ ret[1] => Len(pulled) < Len(doc.nodes)
        /\ ~ret[1] => /\ Len(pulled) = Len(doc.nodes)
                      /\ session.walker[1].queue = <<>>

\* ---------------------------------------------- claims about the driving loop
\* C28: for every document and every chunk_size >= 1 the loop
\* `while session.step(chunk_size) {}` ends after finitely many calls; when
\* it has ended is_complete is true and every node of the document was fed
\* to the accumulator exactly once.
C28_AtEnd ==
    (mode = "drive" /\ drive[1].pc = "done") =>
        /\ session.is_complete
        /\ pulled = Preorder(doc, doc.roots, 0)
        /\ Len(pulled) = Len(doc.nodes)
        /\ \A i, j \in 1..Len(pulled) : pulled[i][1] = pulled[j][1] => i = j
        /\ session.analyzer.result.tags = analyze_html(Some(doc)).tags

\* the calls made so far each returned true and each pulled chunk_size
\* nodes, none of them twice, so that at most Len(doc.nodes) \div chunk_size
\* calls return true and the next one ends the loop
C28_Variant ==
    (mode = "drive" /\ drive[1].pc # "new" /\ drive[1].chunk_size >= 1) =>
        /\ Len(pulled) <= Len(doc.nodes)
        /\ drive[1].pc = "loop" =>
              Len(pulled) = drive[1].calls * drive[1].chunk_size
        /\ drive[1].calls <= Len(doc.nodes) \div drive[1].chunk_size + 1

C28_LoopTerminates == C28_Variant /\ C28_AtEnd

C28_Witness ==
    /\ mode = "drive"
    /\ drive[1].pc = "done"
    /\ drive[1].chunk_size = 1
    /\ Len(doc.nodes) = 3
    /\ Len(pulled) = 3
    /\ session.is_complete

\* ------------------------------------------ claims about a finished session
\* C29: completion is absorbing: once a step call has returned false because
\* the walker was exhausted, every later step call, whatever its chunk_size,
\* returns false and leaves the accumulator, the walker and is_complete (and
\* so the nodes pulled) as they were.
C29_Step ==
    (mode = "session" /\ ret = Some(FALSE)) =>
        /\ session.is_complete
        /\ ret' = Some(FALSE)
        /\ session'.analyzer = session.analyzer
        /\ session'.walker = session.walker
        /\ session'.is_complete = session.is_complete
        /\ pulled' = pulled

C29_CompletionAbsorbing == [][C29_Step]_vars

\* step was called again on a session that was already complete
C29_Witness ==
    /\ mode = "session"
    /\ ret = Some(FALSE)
    /\ session.is_complete
    /\ Len(doc.nodes) = 2
    /\ Len(pulled) = 2
    /\ late


\* C30: get_result reports files_analyzed = 1 exactly when the session is
\* complete and 0 otherwise; in particular it reports 1 as soon as every
\* node of the document has been visited.
C30_GetResultStep ==
    (mode = "session" /\ snapshot' # snapshot) =>
        /\ snapshot'[1].files_analyzed = (IF session.is_complete THEN 1 ELSE 0)
        /\ Len(pulled) = Len(doc.nodes) => snapshot'[1].files_analyzed = 1

C30_OneOnceAllVisited == [][C30_GetResultStep]_vars


\* ------------------------------------------ claims about a partial traversal
\* the accumulator after the given (handle, depth) items were visited in order
RECURSIVE VisitAll(_, _, _)
VisitAll(acc, d, items) ==
    IF items = <<>> THEN acc
    ELSE VisitAll(visit(acc, d.nodes[items[1][1]], items[1][2]), d,
                  Tail(items))

\* the statistics of the first k nodes of the document in preorder
PrefixStats(d, k) ==
    VisitAll(StatsAnalyzer_new(SessionLimit), d,
             SubSeq(Preorder(d, d.roots, 0), 1, k)).result

\* C31: a caller may stop pulling at any time: after exactly k pulls, however
\* grouped into step calls, the accumulator's tags and max_depth are the
\* statistics of the first k nodes of the document in preorder, and
\* get_result at that point returns them with no further action.
C31_PartialIsPrefix ==
    mode = "session" =>
        /\ Len(pulled) <= Len(doc.nodes)
        /\ session.analyzer.result.tags
             = PrefixStats(doc, Len(pulled)).tags
        /\ session.analyzer.result.max_depth
             = PrefixStats(doc, Len(pulled)).max_depth

C31_GetResultStep ==
    (mode = "session" /\ snapshot' # snapshot) =>
        /\ snapshot'[1].tags = PrefixStats(doc, Len(pulled)).tags
        /\ snapshot'[1].max_depth = PrefixStats(doc, Len(pulled)).max_depth

C31_StopAnyTime == [](C31_PartialIsPrefix) /\ [][C31_GetResultStep]_vars

\* two of three nodes were pulled in two step calls and the result was read
C31_Witness ==
    /\ mode = "session"
    /\ Len(doc.nodes) = 3
    /\ Len(pulled) = 2
    /\ ~session.is_complete
    /\ ret = Some(TRUE)
    /\ snapshot # None
    /\ snapshot[1].tags = session.analyzer.result.tags
    /\ len(snapshot[1].tags) = 2
    /\ snapshot[1].max_depth = 1


\* ---------------------------------------- claims about the end of the scan
\* an upper bound on the loop iterations still to come
ReadsLeft ==
    IF scan.pc # "loop" THEN 0
    ELSE IF other[1].reader.exit THEN 1
    ELSE Len(other[1].reader.rest) + 2

\* C32: the streaming scan of a finite input terminates: the read loop is
\* left only on the end-of-input event, never on an error, and every
\* iteration, one that reads an error included, brings the loop nearer to
\* the end of input, so that it makes at most one read per token plus one.
C32_LoopState ==
    mode = "reader" =>
        /\ scan.pc \in {"loop", "returned"}
        /\ scan.pc = "returned" <=> other[1].last = "Eof"
        /\ other[1].reads <= Len(other[1].input) + 1

C32_ReadStep ==
    (mode = "reader" /\ other'[1].reads = other[1].reads + 1) =>
        ReadsLeft' < ReadsLeft

C32_ScanTerminates == [](C32_LoopState) /\ [][C32_ReadStep]_vars

\* the scan has returned after a read error in the middle of the input
C32_Witness ==
    /\ mode = "reader"
    /\ scan.pc = "returned"
    /\ Len(other[1].input) = 3
    /\ other[1].input[1].type = "Start"
    /\ other[1].input[2].type = "Err"
    /\ other[1].reads = 3
    /\ other[1].last = "Eof"


\* ------------------------------------------ claims about non-element nodes
Max2(a, b) == IF a > b THEN a ELSE b

\* the depths at which the document's tag nodes are visited
TagDepths(d) ==
    LET pre == Preorder(d, d.roots, 0)
    IN {pre[i][2] : i \in {j \in 1..Len(pre) : d.nodes[pre[j][1]].kind = "tag"}}

\* C33: visiting a node that is not an element (text or comment) leaves the
\* tags map unchanged; its only possible effect is to raise max_depth to the
\* node's depth, so a text node deeper than every element sets max_depth.
C33_Step ==
    (/\ mode = "session"
     /\ Len(pulled') = Len(pulled) + 1
     /\ doc.nodes[pulled'[Len(pulled')][1]].kind # "tag") =>
        /\ session'.analyzer.result.tags = session.analyzer.result.tags
        /\ session'.analyzer.result.files_analyzed
             = session.analyzer.result.files_analyzed
        /\ session'.analyzer.top_values_limit
             = session.analyzer.top_values_limit
        /\ session'.analyzer.result.max_depth
             = Max2(session.analyzer.result.max_depth,
                    pulled'[Len(pulled')][2])

C33_NonElementOnlyDepth == [][C33_Step]_vars

\* the last node pulled is not a tag and lies below every tag of the
\* document: max_depth is its depth
C33_Witness ==
    /\ mode = "session"
    /\ Len(pulled) = Len(doc.nodes)
    /\ Len(pulled) >= 2
    /\ doc.nodes[pulled[Len(pulled)][1]].kind \in {"raw", "comment"}
    /\ \A dep \in TagDepths(doc) : dep < pulled[Len(pulled)][2]
    /\ session.analyzer.result.max_depth = pulled[Len(pulled)][2]
    /\ len(session.analyzer.result.tags) >= 1


\* ------------------------------- claims about the two accumulators together
\* C34: fed the same sequence of (tag name, ordered (key, value) pairs) under
\* the same limit, StatsAnalyzer.visit and StreamAnalyzer.process_element
\* produce identical tags maps: same keys, counts, attribute counts and
\* histograms.
C34_SameRecordSemantics ==
    mode = "both" =>
        /\ analyzer.top_values_limit = sa.top_values_limit
        /\ analyzer.result.tags = scan.result.tags

\* both were fed four div elements with three distinct class values under
\* limit 2, so one value was refused by both
C34_Witness ==
    /\ mode = "both"
    /\ nevents = 4
    /\ sa.top_values_limit = 2
    /\ "div" \in DOMAIN scan.result.tags
    /\ scan.result.tags["div"].count = 4
    /\ "class" \in DOMAIN scan.result.tags["div"].attributes
    /\ scan.result.tags["div"].attributes["class"].count = 4
    /\ scan.result.tags["div"].attributes["class"].value_counts
         = [v \in {"a", "b"} |-> IF v = "a" THEN 2 ELSE 1]
    /\ analyzer.result.tags = scan.result.tags


\* ------------------------------------------- claims about wasm analyze_html
\* C35: when the document cannot be parsed analyze_html returns an empty
\* structure instead of failing: data has no tags, max_depth 0 and
\* files_analyzed 0, and tree_view and html_tree are empty strings; for every
\* document that parses, data.files_analyzed is 1.
C35_EmptyOnParseError ==
    (mode = "wasm" /\ call # None) =>
        IF call[1].src = None
        THEN /\ call[1].out.data.tags = EmptyMap
             /\ call[1].out.data.max_depth = 0
             /\ call[1].out.data.files_analyzed = 0
             /\ call[1].out.tree_view = <<>>
             /\ call[1].out.html_tree = <<>>
        ELSE call[1].out.data.files_analyzed = 1

C35_Witness ==
    /\ mode = "wasm"
    /\ call # None
    /\ call[1].src = None
    /\ call[1].out.data.files_analyzed = 0
    /\ call[1].out.html_tree = <<>>

\* a document that parsed: both renderings have lines
C35_WitnessParsed ==
    /\ mode = "wasm"
    /\ call # None
    /\ call[1].src # None
    /\ Len(call[1].src[1].nodes) = 3
    /\ call[1].out.data.files_analyzed = 1
    /\ len(call[1].out.data.tags) = 2
    /\ Len(call[1].out.tree_view) = 5
    /\ Len(call[1].out.html_tree) = 13


\* ------------------------------------ claims about the counter and max_depth
\* C36: in the streaming scan the nesting counter never exceeds max_depth, so
\* recording a self-closing element at the current counter value without
\* updating max_depth gives the max_depth that max(max_depth, depth) on
\* every record would give.
C36_CounterBelowMax == mode = "scan" => scan.depth <= scan.result.max_depth

C36_EmptyStep ==
    (ScanStep /\ ghost'.last = "Empty") =>
        scan'.result.max_depth = Max2(scan.result.max_depth, scan'.depth)

C36_EmptyNeedsNoMax == [](C36_CounterBelowMax) /\ [][C36_EmptyStep]_vars

\* a self-closing element was recorded at depth 1 after the counter had come
\* back from 2
C36_Witness ==
    /\ mode = "scan"
    /\ ghost.last = "Empty"
    /\ nevents = 4
    /\ scan.depth = 1
    /\ scan.result.max_depth = 2
    /\ ~ghost.stray
    /\ TotalTags = 3


\* ------------------------------------------- claims about the stored counts
\* C37: in every reachable state, for every tag T and every attribute A
\* under T, 1 <= AttributeStats[A].count <= TagStats[T].count: an attribute
\* is counted once per element that carried its key, never more.
C37_AttrCountAtMostTagCount ==
    mode \in {"visit", "scan"} =>
        \A t \in DOMAIN Res.tags :
            \A a \in DOMAIN Res.tags[t].attributes :
                /\ 1 <= Res.tags[t].attributes[a].count
                /\ Res.tags[t].attributes[a].count <= Res.tags[t].count

\* two p elements that each wrote class twice, and a div that wrote a bare
\* id: class is counted twice under p, and div has more elements than ids
C37_Witness ==
    /\ mode = "scan"
    /\ TagCount("p") = 2
    /\ AttrCount(<<"p", "class">>) = 2
    /\ TagCount("div") = 2
    /\ AttrCount(<<"div", "id">>) = 1


\* C38: in every reachable state every entry of the tags map has a name
\* field equal to its map key, and every entry of every attributes map has a
\* name field equal to its map key; a name is set at insertion and never
\* changed by later visits.
NamesAreKeys(r) ==
    \A t \in DOMAIN r.tags :
        /\ r.tags[t].name = t
        /\ \A a \in DOMAIN r.tags[t].attributes :
              r.tags[t].attributes[a].name = a

C38_Step ==
    mode \in {"visit", "scan"} =>
        \A t \in DOMAIN Res.tags :
            /\ t \in DOMAIN Res'.tags
            /\ Res'.tags[t].name = Res.tags[t].name
            /\ \A a \in DOMAIN Res.tags[t].attributes :
                  /\ a \in DOMAIN Res'.tags[t].attributes
                  /\ Res'.tags[t].attributes[a].name
                       = Res.tags[t].attributes[a].name

C38_NameIsKey ==
    /\ [](mode \in {"visit", "scan"} => NamesAreKeys(Res))
    /\ [][C38_Step]_vars

\* entries that were created by one element and updated by later ones
C38_Witness ==
    /\ mode = "visit"
    /\ nevents = 4
    /\ TagCount("div") = 3
    /\ TagCount("p") = 1
    /\ AttrCount(<<"div", "class">>) = 2
    /\ AttrCount(<<"div", "id">>) = 1
    /\ Res.tags["div"].attributes["id"].name = "id"
    /\ Res.tags["p"].attributes["class"].name = "class"


\* C39: reading the result is a pure snapshot: a step that returns a result
\* leaves the accumulator, the walker and is_complete (and what has been
\* pulled and returned so far) unchanged, and a step that changes the
\* session leaves the snapshot returned earlier as it was.
C39_ReadIsPure ==
    snapshot' # snapshot =>
        /\ session'.analyzer = session.analyzer
        /\ session'.walker = session.walker
        /\ session'.is_complete = session.is_complete
        /\ pulled' = pulled
        /\ ret' = ret

C39_SnapshotKept ==
    (session' # session \/ pulled' # pulled \/ ret' # ret) =>
        snapshot' = snapshot

C39_PureSnapshot ==
    [][mode = "session" => (C39_ReadIsPure /\ C39_SnapshotKept)]_vars

\* a snapshot taken mid-traversal, still as it was after the traversal
\* went on to the end
C39_Witness ==
    /\ mode = "session"
    /\ snapshot # None
    /\ session.is_complete
    /\ Len(pulled) = MaxNodes
    /\ snapshot[1].files_analyzed = 0
    /\ snapshot[1].tags # EmptyMap
    /\ snapshot[1].tags # session.analyzer.result.tags
    /\ snapshot[1].max_depth < session.analyzer.result.max_depth


\* C40: between any two pulls the walker's queue holds exactly the
\* not-yet-visited nodes whose parent has been visited (or that are roots),
\* each exactly once, in the order in which they will be visited, with
\* depths non-increasing from front to back; no node is in the queue twice
\* or enqueued again after it has been visited.
Visited == {pulled[i][1] : i \in 1..Len(pulled)}

Queue == walk.walker.queue

Queued == {Queue[i][1] : i \in 1..Len(Queue)}

IsRoot(h) == \E i \in 1..Len(doc.roots) : doc.roots[i] = h

ParentVisited(h) ==
    \E p \in Visited :
        \E i \in 1..Len(doc.nodes[p].children) : doc.nodes[p].children[i] = h

Frontier ==
    {h \in 1..Len(doc.nodes) :
        h \notin Visited /\ (IsRoot(h) \/ ParentVisited(h))}

\* the position of a node in the recursive preorder of the document
PreorderPos(h) ==
    LET full == Preorder(doc, doc.roots, 0)
    IN CHOOSE k \in 1..Len(full) : full[k][1] = h

C40_State ==
    mode = "walker" =>
        /\ Queued = Frontier
        /\ Len(Queue) = Cardinality(Frontier)
        /\ Queued \cap Visited = {}
        /\ \A i \in 1..Len(Queue) : \A j \in 1..Len(Queue) :
              i < j => /\ PreorderPos(Queue[i][1]) < PreorderPos(Queue[j][1])
                       /\ Queue[i][2] >= Queue[j][2]
        /\ Queue # <<>> => PreorderPos(Queue[1][1]) = Len(pulled) + 1

\* a pull never puts in a node that was visited or already waiting
C40_Step ==
    mode = "walker" =>
        /\ (Queued' \ Queued) \cap (Visited' \cup Queued) = {}
        /\ Len(Queue') = Cardinality(Queued')

C40_QueueIsFrontier == [](C40_State) /\ [][C40_Step]_vars

\* the only root has been visited and its two children wait, in document
\* order, both at depth 1
C40_Witness ==
    /\ mode = "walker"
    /\ Len(doc.nodes) = MaxNodes
    /\ Len(doc.roots) = 1
    /\ Len(pulled) = 1
    /\ Len(Queue) = 2
    /\ Queue[1][2] = 1
    /\ Queue[2][2] = 1

\* a deeper node waits in front of a shallower one
C40_WitnessDepths ==
    /\ mode = "walker"
    /\ Len(pulled) = 1
    /\ Len(Queue) = 2
    /\ Queue[1][2] = 1
    /\ Queue[2][2] = 0

====
